---- MODULE Spec2Model ----
(***************************************************************************)
(* A model of the custom DNS resolver of this repository:                  *)
(*   src/src/custom_resolver.py   ResolverServer (cache, resolution        *)
(*                                engine, request handler, trace logger)   *)
(*   src/custom_dns_resolver.py   build_query / parse_response (the        *)
(*                                hand-written wire codec)                 *)
(***************************************************************************)
EXTENDS Integers, Sequences, FiniteSets, TLC

VARIABLES
    cache,             \* ResolverServer._cache: dict (lower-cased name, type) -> CacheEntry
    cache_enabled,     \* ResolverServer.cache_enabled
    recursive_default, \* ResolverServer.recursive_default
    root_servers,      \* ResolverServer.root_servers
    cache_lock,        \* ResolverServer._cache_lock: its holder, or None
    now,               \* the clock read by time.time() and time.perf_counter()
    th,                \* the request-handler threads: each one's position and locals
    log,               \* the rows of the CSV file ResolverLogger appends to
    log_lock,          \* ResolverLogger._lock: its holder, or None
    sent,              \* the datagrams sent by self._socket.sendto
    call,              \* the last direct call of a helper (cache, codec) and what it returned
    main               \* the main thread: where it is in main() and serve()

vars == <<cache, cache_enabled, recursive_default, root_servers, cache_lock, now,
          th, log, log_lock, sent, call, main>>

\* What the server is constructed with, and never assigns again.
config == <<cache_enabled, recursive_default, root_servers>>

(***************************************************************************)
(* Bounds of the model.                                                    *)
(***************************************************************************)
MaxTime == 3

(***************************************************************************)
(* Values.                                                                 *)
(***************************************************************************)
\* Python's None / a value that is not None.
None == <<>>
Some(x) == <<x>>

\* The first three of the thirteen ROOT_SERVERS; --root-server may give any list.
ROOT_SERVERS == <<"198.41.0.4", "199.9.14.201", "192.33.4.12">>

\* Names are sequences of character codes; "a" = 97, "A" = 65, "b" = 98.
NameLowerA == <<97>>
NameUpperA == <<65>>
NameLowerB == <<98>>

\* dns.rdatatype.A, dns.rdatatype.NS, dns.rdatatype.AAAA
RdtypeA == 1
RdtypeNS == 2
RdtypeAAAA == 28

\* A dns.rrset.RRset: its type, its TTL and its items (addresses).
RRset(ttl, items) == [rdtype |-> RdtypeA, ttl |-> ttl, items |-> items]

\* An object that carries no ttl attribute.
NoTtlRecord == [rdtype |-> RdtypeA, items |-> <<"10.0.0.9">>]

\* str.lower() on ASCII: the codes of A..Z move to those of a..z.
Lower(s) == [i \in DOMAIN s |-> IF s[i] \in 65..90 THEN s[i] + 32 ELSE s[i]]

RECURSIVE MinOf(_)
\* min() of a non-empty sequence of integers.
MinOf(s) ==
    IF Len(s) = 1 THEN s[1]
    ELSE LET m == MinOf(Tail(s)) IN IF s[1] <= m THEN s[1] ELSE m

(***************************************************************************)
(* The answer cache.                                                       *)
(***************************************************************************)
\* ResolverServer._cache_key
CacheKeyVerbatim(qname, qtype) == <<qname, qtype>>
_cache_key(qname, qtype) == <<Lower(qname), qtype>>

\* CacheEntry.fresh at clock reading t
FreshAtOrBefore(entry, t) == t <= entry.expiry
fresh(entry, t) == t < entry.expiry

\* rrset.copy(): a copy equal to the original.
CopyAll(rrsets) == [i \in DOMAIN rrsets |-> rrsets[i]]

\* _cache_lookup: the value returned, on cache mapping c at clock reading t.
_cache_lookup(c, qname, qtype, t) ==
    LET key == _cache_key(qname, qtype) IN
    IF key \notin DOMAIN c THEN None
    ELSE IF fresh(c[key], t) THEN Some(CopyAll(c[key].rrsets))
    ELSE None

\* _cache_lookup: the cache mapping it leaves (an expired entry is popped).
CacheAfterLookupEvicts(c, qname, qtype, t) ==
    LET key == _cache_key(qname, qtype) IN
    IF key \notin DOMAIN c THEN c
    ELSE [k \in DOMAIN c \ {key} |-> c[k]]
CacheAfterLookup(c, qname, qtype, t) ==
    LET key == _cache_key(qname, qtype) IN
    IF key \notin DOMAIN c THEN c
    ELSE IF fresh(c[key], t) THEN c
    ELSE [k \in DOMAIN c \ {key} |-> c[k]]

\* _cache_store: the TTLs collected from the record sets that carry one.
RECURSIVE TtlValues(_)
TtlValues(rrsets) ==
    IF rrsets = <<>> THEN <<>>
    ELSE IF "ttl" \in DOMAIN Head(rrsets)
         THEN <<Head(rrsets).ttl>> \o TtlValues(Tail(rrsets))
         ELSE TtlValues(Tail(rrsets))

\* _cache_store, lines 188-201: the expiry of the entry to write, or None when
\* the call returns without writing.
StoreExpiryWithoutTtlCheck(enabled, rrsets, t) ==
    IF ~enabled THEN None
    ELSE LET ttl_values == TtlValues(rrsets) IN
         IF ttl_values = <<>> THEN None ELSE Some(t + MinOf(ttl_values))
StoreExpiryFirstTtl(enabled, rrsets, t) ==
    IF ~enabled THEN None
    ELSE LET ttl_values == TtlValues(rrsets) IN
         IF ttl_values = <<>> THEN None
         ELSE IF ttl_values[1] <= 0 THEN None ELSE Some(t + ttl_values[1])
StoreExpiryLongestTtl(enabled, rrsets, t) ==
    IF ~enabled THEN None
    ELSE LET ttl_values == TtlValues(rrsets) IN
         IF ttl_values = <<>> THEN None
         ELSE LET ttl == MinOf(ttl_values)
                  longest == CHOOSE m \in { ttl_values[i] : i \in DOMAIN ttl_values } :
                                 \A i \in DOMAIN ttl_values : ttl_values[i] <= m
              IN  IF ttl <= 0 THEN None ELSE Some(t + longest)
StoreExpiryWhenDisabled(enabled, rrsets, t) ==
    LET ttl_values == TtlValues(rrsets) IN
    IF ttl_values = <<>> THEN None
    ELSE LET ttl == MinOf(ttl_values) IN
         IF ttl <= 0 THEN None ELSE Some(t + ttl)
StoreExpiry(enabled, rrsets, t) ==
    IF ~enabled THEN None
    ELSE LET ttl_values == TtlValues(rrsets) IN
         IF ttl_values = <<>> THEN None
         ELSE LET ttl == MinOf(ttl_values) IN
              IF ttl <= 0 THEN None ELSE Some(t + ttl)

\* _cache_store, lines 202-213: the write made under the lock.
CacheWriteMerging(c, qname, qtype, rrsets, expiry) ==
    LET key == _cache_key(qname, qtype) IN
    IF key \in DOMAIN c
    THEN [c EXCEPT ![key] = [rrsets |-> @.rrsets \o CopyAll(rrsets), expiry |-> expiry]]
    ELSE (key :> [rrsets |-> CopyAll(rrsets), expiry |-> expiry]) @@ c
CacheWrite(c, qname, qtype, rrsets, expiry) ==
    LET key == _cache_key(qname, qtype) IN
    (key :> [rrsets |-> CopyAll(rrsets), expiry |-> expiry]) @@ c

\* _cache_store: the cache mapping it leaves, called at clock reading t.
_cache_store(c, enabled, qname, qtype, rrsets, t) ==
    LET expiry == StoreExpiry(enabled, rrsets, t) IN
    IF expiry = None THEN c ELSE CacheWrite(c, qname, qtype, rrsets, expiry[1])

(***************************************************************************)
(* DNS messages as the engine reads them, and the engine's helpers.        *)
(***************************************************************************)
\* dns.rcode.NOERROR, SERVFAIL, NXDOMAIN
NOERROR == 0
SERVFAIL == 2
NXDOMAIN == 3

\* dns.rdatatype.CNAME, dns.rdatatype.SOA
RdtypeCNAME == 5
RdtypeSOA == 6

\* dns.rcode.to_text
RcodeText(rcode) ==
    CASE rcode = NOERROR -> "NOERROR"
      [] rcode = SERVFAIL -> "SERVFAIL"
      [] rcode = NXDOMAIN -> "NXDOMAIN"
      [] OTHER -> "RCODE"

\* A record set of a message section: type, TTL, items (addresses or names).
Section(rdtype, ttl, items) == [rdtype |-> rdtype, ttl |-> ttl, items |-> items]

\* A dns.message.Message received from a server.
Message(rcode, answer, authority, additional) ==
    [rcode |-> rcode, answer |-> answer, authority |-> authority,
     additional |-> additional]

RECURSIVE ItemsOfTypes(_, _)
\* The items of the record sets of the given types, in section order.
ItemsOfTypes(rrsets, types) ==
    IF rrsets = <<>> THEN <<>>
    ELSE (IF Head(rrsets).rdtype \in types THEN Head(rrsets).items ELSE <<>>)
         \o ItemsOfTypes(Tail(rrsets), types)

\* ResolverServer._extract_glue_ips
GlueOnlyIPv4(response) == ItemsOfTypes(response.additional, {RdtypeA})
_extract_glue_ips(response) ==
    ItemsOfTypes(response.additional, {RdtypeA, RdtypeAAAA})

\* ResolverServer._extract_ns_names
_extract_ns_names(response) == ItemsOfTypes(response.authority, {RdtypeNS})

\* ResolverServer._summarize: the text, and for a referral the set of record
\* texts that the code joins in sorted order.
_summarize(response) ==
    IF response.rcode = NXDOMAIN THEN [text |-> "NXDOMAIN", names |-> {}]
    ELSE IF response.answer # <<>> THEN [text |-> "ANSWER", names |-> {}]
    ELSE IF response.authority # <<>>
         THEN [text |-> "REFERRAL",
               names |-> UNION { { response.authority[i].items[j] :
                                     j \in DOMAIN response.authority[i].items } :
                                 i \in DOMAIN response.authority }]
    ELSE [text |-> RcodeText(response.rcode), names |-> {}]

\* ResolverServer._step_name
_step_name(depth) ==
    IF depth = 0 THEN "Root" ELSE IF depth = 1 THEN "TLD" ELSE "Authoritative"

\* min(depth + 1, 2)
NextDepthSkipsTld(depth) == 2
NextDepth(depth) == IF depth + 1 <= 2 THEN depth + 1 ELSE 2

\* A TraceEvent.
TraceEventAnswerIsHit(server, step, response, rtt, total_time, cache_status, event_time) ==
    [server |-> server, step |-> step, response |-> response, rtt |-> rtt,
     total_time |-> total_time,
     cache_status |-> IF response.text = "ANSWER" THEN "HIT" ELSE cache_status,
     event_time |-> event_time]
TraceEvent(server, step, response, rtt, total_time, cache_status, event_time) ==
    [server |-> server, step |-> step, response |-> response, rtt |-> rtt,
     total_time |-> total_time, cache_status |-> cache_status,
     event_time |-> event_time]

RECURSIVE _resolve_ns_addresses(_, _)
\* ResolverServer._resolve_ns_addresses: upstream[name] is what resolver.resolve
\* gives for the name: not ok (NXDOMAIN, Timeout or NoNameservers is raised, and
\* the name is skipped) or the answer section of the response.
_resolve_ns_addresses(ns_names, upstream) ==
    IF ns_names = <<>> THEN <<>>
    ELSE (IF ~upstream[Head(ns_names)].ok THEN <<>>
          ELSE ItemsOfTypes(upstream[Head(ns_names)].answer, {RdtypeA}))
         \o _resolve_ns_addresses(Tail(ns_names), upstream)

(***************************************************************************)
(* Direct calls of the cache helpers, in any order, with the clock         *)
(* advancing between them.                                                 *)
(***************************************************************************)
CallQuestions ==
    { <<NameLowerA, RdtypeA>>, <<NameUpperA, RdtypeA>>, <<NameLowerA, RdtypeNS>> }

CallRecordSets ==
    { <<>>,
      <<NoTtlRecord>>,
      <<RRset(0, <<"10.0.0.1">>)>>,
      <<RRset(2, <<"10.0.0.2">>)>>,
      <<RRset(2, <<"10.0.0.1">>), RRset(1, <<"10.0.0.2">>)>>,
      <<RRset(2, <<"10.0.0.2">>), RRset(0, <<"10.0.0.1">>)>> }

NoCall == [op |-> "none"]

\* The entry the cache holds for the key of (qname, qtype), if any.
EntryOf(c, qname, qtype) ==
    IF _cache_key(qname, qtype) \in DOMAIN c
    THEN Some(c[_cache_key(qname, qtype)]) ELSE None

CallStore(qname, qtype, rrsets) ==
    /\ cache' = _cache_store(cache, cache_enabled, qname, qtype, rrsets, now)
    /\ call' = [op |-> "store", qname |-> qname, qtype |-> qtype,
                rrsets |-> rrsets, at |-> now,
                before |-> EntryOf(cache, qname, qtype)]
    /\ UNCHANGED <<config, main, cache_lock, now, th, log, log_lock, sent>>

CallLookup(qname, qtype) ==
    /\ cache' = CacheAfterLookup(cache, qname, qtype, now)
    /\ call' = [op |-> "lookup", qname |-> qname, qtype |-> qtype,
                ret |-> _cache_lookup(cache, qname, qtype, now), at |-> now,
                before |-> EntryOf(cache, qname, qtype),
                prev |-> IF call.op = "store" THEN call ELSE [op |-> call.op]]
    /\ UNCHANGED <<config, main, cache_lock, now, th, log, log_lock, sent>>

Tick ==
    /\ now < MaxTime
    /\ now' = now + 1
    /\ UNCHANGED <<config, main, cache, cache_lock, th, log, log_lock, sent, call>>

CacheInit ==
    /\ cache = <<>>
    /\ cache_enabled \in BOOLEAN
    /\ recursive_default = FALSE
    /\ root_servers = ROOT_SERVERS
    /\ cache_lock = None
    /\ now = 0
    /\ th = <<>>
    /\ log = <<>>
    /\ log_lock = None
    /\ sent = <<>>
    /\ call = NoCall
    /\ main = "serving"

CallStoreAny == \E q \in CallQuestions, rr \in CallRecordSets : CallStore(q[1], q[2], rr)
CallLookupAny == \E q \in CallQuestions : CallLookup(q[1], q[2])

CacheNext ==
    \/ CallStoreAny
    \/ CallLookupAny
    \/ Tick

CacheSpec == CacheInit /\ [][CacheNext]_vars

(***************************************************************************)
(* The network: what a contacted server, the upstream resolver and a       *)
(* client may send.                                                        *)
(***************************************************************************)
AnswerA == <<Section(RdtypeA, 2, <<"93.184.216.34">>)>>
AnswerCnameA ==
    <<Section(RdtypeCNAME, 2, <<"www.a.">>), Section(RdtypeA, 1, <<"93.184.216.35">>)>>
AnswerZeroTtl == <<Section(RdtypeA, 0, <<"93.184.216.36">>)>>

ReplyAnswer(answer) == Message(NOERROR, answer, <<>>, <<>>)
\* NXDOMAIN at the end of a CNAME chain: the answer section holds the CNAME.
ReplyNxdomain ==
    Message(NXDOMAIN, <<Section(RdtypeCNAME, 2, <<"gone.a.">>)>>,
            <<Section(RdtypeSOA, 2, <<"soa.a.">>)>>, <<>>)
ReplyGlue ==
    Message(NOERROR, <<>>, <<Section(RdtypeNS, 2, <<"ns1.", "ns2.">>)>>,
            <<Section(RdtypeA, 2, <<"192.0.2.1">>),
              Section(RdtypeAAAA, 2, <<"2001:db8::1">>)>>)
ReplyNsOnly ==
    Message(NOERROR, <<>>, <<Section(RdtypeNS, 2, <<"ns1.", "ns2.">>)>>, <<>>)
ReplyNoData ==
    Message(NOERROR, <<>>, <<Section(RdtypeSOA, 2, <<"soa.a.">>)>>, <<>>)
ReplyServfail == Message(SERVFAIL, <<>>, <<>>, <<>>)

Response(msg) == [kind |-> "response", msg |-> msg]
\* dns.exception.Timeout or OSError
TimedOut == [kind |-> "timeout"]
\* any other exception (a reply that does not decode, NoNameservers, ...)
Raised == [kind |-> "raise"]

\* What dns.query.udp may give for one query.
QueryOutcomes ==
    { Response(ReplyAnswer(AnswerA)), Response(ReplyAnswer(AnswerZeroTtl)),
      Response(ReplyNxdomain), Response(ReplyGlue), Response(ReplyNsOnly),
      Response(ReplyNoData), TimedOut, Raised }

\* What resolver.resolve(qname) may give in _recursive_lookup: a response (an
\* empty answer does not raise), Timeout or NXDOMAIN raised, another exception.
RecursiveOutcomes ==
    { Response(ReplyAnswer(AnswerA)), Response(ReplyAnswer(AnswerZeroTtl)),
      Response(ReplyNoData), TimedOut, Raised }

Failed == [ok |-> FALSE]
Resolved(answer) == [ok |-> TRUE, answer |-> answer]

\* What resolver.resolve(ns_name) may give for the NS names of a referral.
Upstreams ==
    { [n \in {"ns1.", "ns2."} |->
          IF n = "ns1." THEN Resolved(<<>>) ELSE Failed],
      [n \in {"ns1.", "ns2."} |->
          IF n = "ns1." THEN Failed
          ELSE Resolved(<<Section(RdtypeCNAME, 2, <<"x.">>),
                          Section(RdtypeA, 2, <<"192.0.2.53">>)>>)] }

(***************************************************************************)
(* The nameservers of the system, and ipaddress.ip_address, which decides  *)
(* which of them _safe_system_nameservers keeps.  A nameserver entry is a  *)
(* string; Chars gives the characters (code points) ip_address reads.      *)
(***************************************************************************)
Dot == 46
Digit0 == 48
Colon == 58
Percent == 37
HextetCount == 8

Chars ==
    "127.0.0.53" :> <<49, 50, 55, 46, 48, 46, 48, 46, 53, 51>> @@
    "127.1.2.3" :> <<49, 50, 55, 46, 49, 46, 50, 46, 51>> @@
    "0.0.0.0" :> <<48, 46, 48, 46, 48, 46, 48>> @@
    "10.0.0.1" :> <<49, 48, 46, 48, 46, 48, 46, 49>> @@
    "8.8.8.8" :> <<56, 46, 56, 46, 56, 46, 56>> @@
    "1.1.1.1" :> <<49, 46, 49, 46, 49, 46, 49>> @@
    "::1" :> <<58, 58, 49>> @@
    "::" :> <<58, 58>> @@
    "0::0" :> <<48, 58, 58, 48>> @@
    "0:0:0:0:0:0:0:1" :> <<48, 58, 48, 58, 48, 58, 48, 58, 48, 58, 48, 58, 48, 58, 49>> @@
    "2001:db8::1" :> <<50, 48, 48, 49, 58, 100, 98, 56, 58, 58, 49>> @@
    "fe80::1%eth0" :> <<102, 101, 56, 48, 58, 58, 49, 37, 101, 116, 104, 48>> @@
    "::ffff:10.0.0.1" :> <<58, 58, 102, 102, 102, 102, 58, 49, 48, 46, 48, 46, 48, 46, 49>> @@
    "localhost" :> <<108, 111, 99, 97, 108, 104, 111, 115, 116>> @@
    "256.1.1.1" :> <<50, 53, 54, 46, 49, 46, 49, 46, 49>> @@
    "1.2.3" :> <<49, 46, 50, 46, 51>> @@
    "01.2.3.4" :> <<48, 49, 46, 50, 46, 51, 46, 52>> @@
    "1::2::3" :> <<49, 58, 58, 50, 58, 58, 51>>

\* s.split(sep): cur is the piece being read.
RECURSIVE SplitOn(_, _, _)
SplitOn(s, sep, cur) ==
    IF s = <<>> THEN <<cur>>
    ELSE IF Head(s) = sep THEN <<cur>> \o SplitOn(Tail(s), sep, <<>>)
    ELSE SplitOn(Tail(s), sep, Append(cur, Head(s)))

\* The value of a digit in int(s, base), -1 for any other character.
DigitValue(c) ==
    IF c \in 48..57 THEN c - 48
    ELSE IF c \in 97..102 THEN c - 87
    ELSE IF c \in 65..70 THEN c - 55
    ELSE -1

\* int(s, base) of a string of digits of that base
RECURSIVE IntOf(_, _)
IntOf(s, base) ==
    IF s = <<>> THEN 0
    ELSE IntOf(SubSeq(s, 1, Len(s) - 1), base) * base + DigitValue(s[Len(s)])

\* '%x' % n
RECURSIVE Hex(_)
Hex(n) ==
    LET digit(d) == IF d < 10 THEN Digit0 + d ELSE 87 + d
    IN  IF n < 16 THEN <<digit(n)>> ELSE Hex(n \div 16) \o <<digit(n % 16)>>

\* An address as ipaddress holds it: the version and the octets (IPv4) or
\* hextets (IPv6); ValueError when the text is not an address.
ValueError == [ok |-> FALSE, version |-> 0, words |-> <<>>]
Address(version, words) == [ok |-> TRUE, version |-> version, words |-> words]

\* IPv4Address._parse_octet: decimal digits, at most three, no leading zero,
\* at most 255.
OctetOk(o) ==
    /\ o # <<>>
    /\ \A i \in DOMAIN o : o[i] \in 48..57
    /\ Len(o) <= 3
    /\ ~(Len(o) > 1 /\ o[1] = Digit0)
    /\ IntOf(o, 10) <= 255

\* ipaddress.IPv4Address(text)
IPv4Address(text) ==
    LET octets == SplitOn(text, Dot, <<>>)
    IN  IF Len(octets) = 4 /\ \A i \in DOMAIN octets : OctetOk(octets[i])
        THEN Address(4, [i \in 1..4 |-> IntOf(octets[i], 10)])
        ELSE ValueError

\* IPv6Address._parse_hextet: hexadecimal digits, at most four.
HextetOk(p) ==
    /\ p # <<>>
    /\ \A i \in DOMAIN p : DigitValue(p[i]) >= 0
    /\ Len(p) <= 4

\* IPv6Address._split_scope_id: the address before the first '%', and
\* whether what follows is a scope id (not empty, no further '%').
ScopeAt(text) ==
    IF \E i \in DOMAIN text : text[i] = Percent
    THEN CHOOSE i \in DOMAIN text :
             text[i] = Percent /\ \A j \in 1..(i - 1) : text[j] # Percent
    ELSE 0
WithoutScope(text) ==
    IF ScopeAt(text) = 0 THEN text ELSE SubSeq(text, 1, ScopeAt(text) - 1)
ScopeOk(text) ==
    \/ ScopeAt(text) = 0
    \/ /\ ScopeAt(text) < Len(text)
       /\ \A i \in (ScopeAt(text) + 1)..Len(text) : text[i] # Percent

\* IPv6Address._ip_int_from_string: the parts between the colons; a dotted
\* last part is read as an IPv4 address and becomes two hextets.
Dotted(part) == \E i \in DOMAIN part : part[i] = Dot
HextetParts(parts0) ==
    LET ipv4 == IPv4Address(parts0[Len(parts0)])
    IN  IF Dotted(parts0[Len(parts0)]) /\ ipv4.ok
        THEN SubSeq(parts0, 1, Len(parts0) - 1)
             \o <<Hex(ipv4.words[1] * 256 + ipv4.words[2]),
                  Hex(ipv4.words[3] * 256 + ipv4.words[4])>>
        ELSE parts0

\* The inner empty parts: each one is a '::'.
Skips(parts) == { i \in 2..(Len(parts) - 1) : parts[i] = <<>> }
SkipIndex(parts) == CHOOSE i \in Skips(parts) : TRUE

\* The number of hextets before and after the '::', and that it stands for.
PartsHi(parts) ==
    IF Skips(parts) = {} THEN Len(parts)
    ELSE IF parts[1] = <<>> THEN SkipIndex(parts) - 2 ELSE SkipIndex(parts) - 1
PartsLo(parts) ==
    IF Skips(parts) = {} THEN 0
    ELSE IF parts[Len(parts)] = <<>> THEN Len(parts) - SkipIndex(parts) - 1
    ELSE Len(parts) - SkipIndex(parts)
PartsSkipped(parts) ==
    IF Skips(parts) = {} THEN 0
    ELSE HextetCount - (PartsHi(parts) + PartsLo(parts))

\* The checks of _ip_int_from_string on the parts.
PartsOk(parts) ==
    /\ Len(parts) <= HextetCount + 1
    /\ Cardinality(Skips(parts)) <= 1
    /\ IF Skips(parts) = {}
       THEN Len(parts) = HextetCount /\ parts[1] # <<>> /\ parts[Len(parts)] # <<>>
       ELSE /\ parts[1] = <<>> => PartsHi(parts) = 0
            /\ parts[Len(parts)] = <<>> => PartsLo(parts) = 0
            /\ PartsSkipped(parts) >= 1
    /\ \A i \in 1..PartsHi(parts) : HextetOk(parts[i])
    /\ \A i \in 1..PartsLo(parts) : HextetOk(parts[Len(parts) - PartsLo(parts) + i])

HextetsOf(parts) ==
    [i \in 1..PartsHi(parts) |-> IntOf(parts[i], 16)]
    \o [i \in 1..PartsSkipped(parts) |-> 0]
    \o [i \in 1..PartsLo(parts) |->
           IntOf(parts[Len(parts) - PartsLo(parts) + i], 16)]

\* ipaddress.IPv6Address(text)
IPv6Address(text) ==
    LET parts0 == SplitOn(WithoutScope(text), Colon, <<>>)
    IN  IF /\ WithoutScope(text) # <<>>
           /\ ScopeOk(text)
           /\ Len(parts0) >= 3
           /\ Dotted(parts0[Len(parts0)]) => IPv4Address(parts0[Len(parts0)]).ok
           /\ PartsOk(HextetParts(parts0))
        THEN Address(6, HextetsOf(HextetParts(parts0)))
        ELSE ValueError

\* ipaddress.ip_address(text): an IPv4 address, else an IPv6 address, else
\* ValueError.
ip_address(text) ==
    IF IPv4Address(text).ok THEN IPv4Address(text) ELSE IPv6Address(text)

\* is_loopback: 127.0.0.0/8 or ::1; is_unspecified: 0.0.0.0 or ::
is_loopback_exact(ip) ==
    IF ip.version = 4 THEN ip.words = <<127, 0, 0, 1>>
    ELSE ip.words = <<0, 0, 0, 0, 0, 0, 0, 1>>
is_loopback(ip) ==
    IF ip.version = 4 THEN ip.words[1] = 127
    ELSE ip.words = <<0, 0, 0, 0, 0, 0, 0, 1>>
is_unspecified(ip) == \A i \in DOMAIN ip.words : ip.words[i] = 0

\* resolver.nameservers as /etc/resolv.conf gives them.
SystemNameservers == <<"127.0.0.53", "10.0.0.1">>

\* ResolverServer._safe_system_nameservers, lines 148-160
_safe_system_nameservers(candidates) ==
    LET Usable(ns) ==
            LET ip == ip_address(Chars[ns])
            IN  ip.ok /\ ~(is_loopback(ip) \/ is_unspecified(ip))
        usable == SelectSeq(candidates, Usable)
    IN  IF usable = <<>> THEN <<"8.8.8.8", "1.1.1.1">> ELSE usable

\* A datagram from a client: bytes that do not decode, a message without a
\* question, or a query.
Malformed == [ok |-> FALSE]
NoQuestion == [ok |-> TRUE, id |-> 7, rd |-> FALSE, question |-> <<>>]
Query(qname, qtype, rd) ==
    [ok |-> TRUE, id |-> 7, rd |-> rd,
     question |-> <<[name |-> qname, rdtype |-> qtype]>>]

Datagrams ==
    { Malformed, NoQuestion }
    \cup { Query(NameUpperA, RdtypeA, rd) : rd \in BOOLEAN }

\* How long recvfrom waits for a datagram, and how long a query takes.
RecvDelays == {0, 1}
Delays == {1}

(***************************************************************************)
(* The request handler: ResolverServer.serve starts one thread per         *)
(* datagram, and the thread runs _handle_request.                          *)
(***************************************************************************)
MaxReferrals == 2

\* The locals of a handler thread that has not started.
IdleThread ==
    [pc |-> "idle", data |-> None, addr |-> "", qname |-> <<>>, qtype |-> 0,
     recursion_requested |-> FALSE, servers |-> <<>>, idx |-> 0, depth |-> 0,
     step_name |-> "", last_rcode |-> SERVFAIL, start |-> 0, trace |-> <<>>,
     answers |-> <<>>, rcode |-> NOERROR, cache_hit |-> FALSE, ns_names |-> <<>>,
     response |-> None, resolved_ips |-> None, expiry |-> 0, hops |-> 0,
     contacted |-> <<>>, log_pos |-> 0, request_id |-> 0]

\* The thread ends: by return, or by an exception nothing catches.
Ended == [IdleThread EXCEPT !.pc = "done"]
Crashed == [IdleThread EXCEPT !.pc = "crashed"]

\* resolve, lines 414 and 419: whether the result is handed to _cache_store.
ShouldStore(answers, rcode) == answers # <<>> /\ rcode = NOERROR

\* resolve returns (answers, rcode, trace, False) after a lookup, storing the
\* answers first when there are some; t is the clock _cache_store reads.
Resolved_(loc, answers, rcode, trace, enabled, t) ==
    LET expiry == IF ShouldStore(answers, rcode)
                  THEN StoreExpiry(enabled, answers, t) ELSE None
    IN  [loc EXCEPT !.answers = answers, !.rcode = rcode, !.trace = trace,
                    !.cache_hit = FALSE,
                    !.pc = IF expiry = None THEN "resolved" ELSE "store",
                    !.expiry = IF expiry = None THEN 0 ELSE expiry[1]]

\* _iterative_lookup, lines 350-352: the while test and the head of its body.
EnterWhile(loc, enabled, t) ==
    IF loc.servers = <<>>
    THEN Resolved_(loc, <<>>, loc.last_rcode, loc.trace, enabled, t)
    ELSE [loc EXCEPT !.step_name = _step_name(loc.depth),
                     !.depth = NextDepth(loc.depth), !.idx = 1, !.pc = "query"]

\* _iterative_lookup, lines 344-348: the lookup begins at clock reading t.
IterativeSkipped(loc, roots, enabled, t) ==
    Resolved_(loc, <<>>, NXDOMAIN, loc.trace, enabled, t)
IterativeStart(loc, roots, enabled, t) ==
    EnterWhile([loc EXCEPT !.trace = <<>>, !.start = t, !.servers = roots,
                           !.depth = 0, !.last_rcode = SERVFAIL],
               enabled, t)

\* _iterative_lookup: continue, and the for loop's else clause.
GiveUp(loc, enabled, t) ==
    Resolved_(loc, <<>>, loc.last_rcode, loc.trace, enabled, t)
NextServerServfail(loc, enabled, t) ==
    IF loc.idx < Len(loc.servers)
    THEN [loc EXCEPT !.idx = @ + 1, !.pc = "query"]
    ELSE Resolved_(loc, <<>>, SERVFAIL, loc.trace, enabled, t)
NextServerSkipsOne(loc, enabled, t) ==
    IF loc.idx + 1 < Len(loc.servers)
    THEN [loc EXCEPT !.idx = @ + 2, !.pc = "query"]
    ELSE Resolved_(loc, <<>>, loc.last_rcode, loc.trace, enabled, t)
NextServer(loc, enabled, t) ==
    IF loc.idx < Len(loc.servers)
    THEN [loc EXCEPT !.idx = @ + 1, !.pc = "query"]
    ELSE Resolved_(loc, <<>>, loc.last_rcode, loc.trace, enabled, t)

\* _iterative_lookup, line 374
IsAnswerWhateverRcode(response) == response.answer # <<>>
IsAnswer(response) == response.rcode = NOERROR /\ response.answer # <<>>

Contact(loc, kind, server) ==
    [loc EXCEPT !.contacted = Append(@, [kind |-> kind, server |-> server])]

\* resolve, lines 400-408: the event of a cache hit at clock reading t.
CacheHitEventAsMiss(t) ==
    TraceEvent("CACHE", "CACHE", [text |-> "ANSWER_FROM_CACHE", names |-> {}],
               0, 0, "MISS", t)
CacheHitEvent(t) ==
    TraceEvent("CACHE", "CACHE", [text |-> "ANSWER_FROM_CACHE", names |-> {}],
               0, 0, "HIT", t)

\* serve, lines 428-433: a datagram arrives and a thread is started for it.
RecvAfterResolution(h, data, delay) ==
    /\ th[h].pc = "idle"
    /\ \A g \in DOMAIN th : th[g].pc \in {"idle", "done", "crashed"}
    /\ now' = now + delay
    /\ th' = [th EXCEPT ![h] = [@ EXCEPT !.pc = "start", !.data = data,
                                         !.addr = "10.0.0.1"]]
    /\ UNCHANGED <<config, main, cache, cache_lock, log, log_lock, sent, call>>
Recv(h, data, delay) ==
    /\ th[h].pc = "idle"
    /\ now' = now + delay
    /\ th' = [th EXCEPT ![h] = [@ EXCEPT !.pc = "start", !.data = data,
                                         !.addr = "10.0.0.1"]]
    /\ UNCHANGED <<config, main, cache, cache_lock, log, log_lock, sent, call>>

\* _handle_request, lines 445-456
DecodeAnswersNoQuestion(h) ==
    /\ th[h].pc = "start"
    /\ LET loc == th[h] IN
       th' = [th EXCEPT ![h] =
                IF ~loc.data.ok THEN Ended
                ELSE IF loc.data.question = <<>> THEN [loc EXCEPT !.pc = "resolved"]
                ELSE [loc EXCEPT !.qname = loc.data.question[1].name,
                                 !.qtype = loc.data.question[1].rdtype,
                                 !.recursion_requested = loc.data.rd \/ recursive_default,
                                 !.pc = "lookup"]]
    /\ UNCHANGED <<config, main, cache, cache_lock, now, log, log_lock, sent, call>>
Decode(h) ==
    /\ th[h].pc = "start"
    /\ LET loc == th[h] IN
       th' = [th EXCEPT ![h] =
                IF ~loc.data.ok THEN Ended
                ELSE IF loc.data.question = <<>> THEN Ended
                ELSE [loc EXCEPT !.qname = loc.data.question[1].name,
                                 !.qtype = loc.data.question[1].rdtype,
                                 !.recursion_requested = loc.data.rd \/ recursive_default,
                                 !.pc = "lookup"]]
    /\ UNCHANGED <<config, main, cache, cache_lock, now, log, log_lock, sent, call>>

\* _cache_lookup, line 168: the lock is taken.
LookupAcquire(h) ==
    /\ th[h].pc = "lookup"
    /\ cache_lock = None
    /\ cache_lock' = Some(h)
    /\ th' = [th EXCEPT ![h].pc = "lookup_cs"]
    /\ UNCHANGED <<config, main, cache, now, log, log_lock, sent, call>>

\* _cache_lookup, lines 169-185, and resolve, lines 398-412.
LookupBodyRecursiveFirst(h) ==
    /\ th[h].pc = "lookup_cs"
    /\ cache_lock' = None
    /\ cache' = CacheAfterLookup(cache, th[h].qname, th[h].qtype, now)
    /\ LET cached == _cache_lookup(cache, th[h].qname, th[h].qtype, now)
           loc == th[h]
       IN  th' = [th EXCEPT ![h] =
                    IF cached # None
                    THEN [loc EXCEPT
                            !.trace = <<CacheHitEvent(now)>>,
                            !.answers = cached[1], !.rcode = NOERROR,
                            !.cache_hit = TRUE, !.pc = "resolved"]
                    ELSE IF TRUE
                    THEN [loc EXCEPT !.pc = "recursive"]
                    ELSE IterativeStart(loc, root_servers, cache_enabled, now)]
    /\ UNCHANGED <<config, main, now, log, log_lock, sent, call>>
LookupBody(h) ==
    /\ th[h].pc = "lookup_cs"
    /\ cache_lock' = None
    /\ cache' = CacheAfterLookup(cache, th[h].qname, th[h].qtype, now)
    /\ LET cached == _cache_lookup(cache, th[h].qname, th[h].qtype, now)
           loc == th[h]
       IN  th' = [th EXCEPT ![h] =
                    IF cached # None
                    THEN [loc EXCEPT
                            !.trace = <<CacheHitEvent(now)>>,
                            !.answers = cached[1], !.rcode = NOERROR,
                            !.cache_hit = TRUE, !.pc = "resolved"]
                    ELSE IF loc.recursion_requested
                    THEN [loc EXCEPT !.pc = "recursive"]
                    ELSE IterativeStart(loc, root_servers, cache_enabled, now)]
    /\ UNCHANGED <<config, main, now, log, log_lock, sent, call>>

\* _recursive_lookup, and resolve, lines 413-418. A "timeout" outcome stands
\* for dns.exception.Timeout or dns.resolver.NXDOMAIN being raised.
RecursiveLookup(h, outcome, delay) ==
    /\ th[h].pc = "recursive"
    /\ now' = now + delay
    /\ LET t == now + delay
           server_logged == _safe_system_nameservers(SystemNameservers)[1]
           loc == Contact(th[h], "recursive", server_logged)
           event(summary) ==
               TraceEvent(server_logged, "Recursive", [text |-> summary, names |-> {}],
                          delay, delay, "MISS", t)
       IN  th' = [th EXCEPT ![h] =
                    IF outcome.kind = "raise" THEN Crashed
                    ELSE IF outcome.kind = "timeout"
                    THEN IterativeStart(loc, root_servers, cache_enabled, t)
                    ELSE IF ShouldStore(outcome.msg.answer, outcome.msg.rcode)
                    THEN Resolved_(loc, outcome.msg.answer, outcome.msg.rcode,
                                   <<event(IF outcome.msg.answer # <<>> THEN "ANSWER"
                                           ELSE RcodeText(outcome.msg.rcode))>>,
                                   cache_enabled, t)
                    ELSE IterativeStart(loc, root_servers, cache_enabled, t)]
    /\ UNCHANGED <<config, main, cache, cache_lock, log, log_lock, sent, call>>

\* _iterative_lookup, lines 359-393: a response arrived from the server after
\* rtt, at clock reading t.
OnResponseNxdomainContinues(loc, server, response, rtt, enabled, t) ==
    LET event == TraceEvent(server, loc.step_name, _summarize(response), rtt,
                            t - loc.start, "MISS", t)
        seen == [loc EXCEPT !.response = Some(response),
                            !.last_rcode = response.rcode,
                            !.trace = Append(@, event)]
        glue_ips == _extract_glue_ips(response)
        ns_names == _extract_ns_names(response)
    IN  IF IsAnswer(response)
        THEN Resolved_(seen, response.answer, NOERROR, seen.trace, enabled, t)
        ELSE IF response.rcode = NXDOMAIN
        THEN NextServer(seen, enabled, t)
        ELSE IF glue_ips # <<>>
        THEN EnterWhile([seen EXCEPT !.servers = glue_ips, !.hops = @ + 1], enabled, t)
        ELSE IF ns_names = <<>>
        THEN NextServer([seen EXCEPT !.ns_names = <<>>], enabled, t)
        ELSE [seen EXCEPT !.ns_names = ns_names, !.pc = "resolve_ns"]
OnResponse(loc, server, response, rtt, enabled, t) ==
    LET event == TraceEvent(server, loc.step_name, _summarize(response), rtt,
                            t - loc.start, "MISS", t)
        seen == [loc EXCEPT !.response = Some(response),
                            !.last_rcode = response.rcode,
                            !.trace = Append(@, event)]
        glue_ips == _extract_glue_ips(response)
        ns_names == _extract_ns_names(response)
    IN  IF IsAnswer(response)
        THEN Resolved_(seen, response.answer, NOERROR, seen.trace, enabled, t)
        ELSE IF response.rcode = NXDOMAIN
        THEN Resolved_(seen, <<>>, NXDOMAIN, seen.trace, enabled, t)
        ELSE IF glue_ips # <<>>
        THEN EnterWhile([seen EXCEPT !.servers = glue_ips, !.hops = @ + 1], enabled, t)
        ELSE IF ns_names = <<>>
        THEN NextServer([seen EXCEPT !.ns_names = <<>>], enabled, t)
        ELSE [seen EXCEPT !.ns_names = ns_names, !.pc = "resolve_ns"]

\* _iterative_lookup, lines 353-357: the locals after the next server of the
\* list was queried and the outcome arrived after delay, at clock reading t.
AfterQuery(loc0, outcome, delay, enabled, t) ==
    LET server == loc0.servers[loc0.idx]
        loc == Contact(loc0, "udp", server)
    IN  IF outcome.kind = "raise" THEN Crashed
        ELSE IF outcome.kind = "timeout" THEN NextServer(loc, enabled, t)
        ELSE OnResponse(loc, server, outcome.msg, delay, enabled, t)

QueryServer(h, outcome, delay) ==
    /\ th[h].pc = "query"
    /\ (outcome.kind = "response" /\ _extract_glue_ips(outcome.msg) # <<>>)
          => th[h].hops < MaxReferrals
    /\ now' = now + delay
    /\ th' = [th EXCEPT ![h] =
                AfterQuery(th[h], outcome, delay, cache_enabled, now + delay)]
    /\ UNCHANGED <<config, main, cache, cache_lock, log, log_lock, sent, call>>

\* _iterative_lookup, lines 388-391: the locals after the NS names of the
\* referral were resolved.
AfterResolveNs(loc0, outcome, enabled, t) ==
    LET resolved_ips == _resolve_ns_addresses(loc0.ns_names, outcome.upstream)
        loc == [Contact(loc0, "resolve_ns",
                        _safe_system_nameservers(SystemNameservers)[1])
                   EXCEPT !.resolved_ips = Some(resolved_ips)]
    IN  IF resolved_ips # <<>>
        THEN EnterWhile([loc EXCEPT !.servers = resolved_ips, !.hops = @ + 1],
                        enabled, t)
        ELSE NextServer(loc, enabled, t)

ResolveNs(h, outcome, delay) ==
    /\ th[h].pc = "resolve_ns"
    /\ (outcome.kind = "resolved"
          /\ _resolve_ns_addresses(th[h].ns_names, outcome.upstream) # <<>>)
          => th[h].hops < MaxReferrals
    /\ now' = now + delay
    /\ th' = [th EXCEPT ![h] =
                IF outcome.kind = "raise" THEN Crashed
                ELSE AfterResolveNs(th[h], outcome, cache_enabled, now + delay)]
    /\ UNCHANGED <<config, main, cache, cache_lock, log, log_lock, sent, call>>

ResolveOutcomes == { [kind |-> "resolved", upstream |-> u] : u \in Upstreams } \cup {Raised}

\* _cache_store, line 203: the lock is taken.
StoreAcquire(h) ==
    /\ th[h].pc = "store"
    /\ cache_lock = None
    /\ cache_lock' = Some(h)
    /\ th' = [th EXCEPT ![h].pc = "store_cs"]
    /\ UNCHANGED <<config, main, cache, now, log, log_lock, sent, call>>

\* _cache_store, lines 204-213
StoreWriteKeepsLock(h) ==
    /\ th[h].pc = "store_cs"
    /\ cache' = CacheWrite(cache, th[h].qname, th[h].qtype, th[h].answers, th[h].expiry)
    /\ th' = [th EXCEPT ![h].pc = "resolved"]
    /\ UNCHANGED <<config, main, cache_lock, now, log, log_lock, sent, call>>
StoreWrite(h) ==
    /\ th[h].pc = "store_cs"
    /\ cache_lock' = None
    /\ cache' = CacheWrite(cache, th[h].qname, th[h].qtype, th[h].answers, th[h].expiry)
    /\ th' = [th EXCEPT ![h].pc = "resolved"]
    /\ UNCHANGED <<config, main, now, log, log_lock, sent, call>>

\* uuid.uuid4(), line 469, called in thread h after n earlier calls of the
\* thread: a value that no other call returns, in this thread or another.
uuid4(h, n) == h + n * Cardinality(DOMAIN th)

\* _handle_request, lines 459-469: the response is built and the request
\* identifier drawn; the rows follow.
Respond(h) ==
    /\ th[h].pc = "resolved"
    /\ th' = [th EXCEPT ![h] =
                [@ EXCEPT !.log_pos = 1,
                          !.request_id = uuid4(h, 0),
                          !.pc = IF th[h].trace = <<>> THEN "send" ELSE "log"]]
    /\ UNCHANGED <<config, main, cache, cache_lock, now, log, log_lock, sent, call>>

\* ResolverLogger.log_event, line 91: the lock is taken.
LogAcquireUnlocked(h) ==
    /\ th[h].pc = "log"
    /\ log_lock' = Some(h)
    /\ th' = [th EXCEPT ![h].pc = "log_cs"]
    /\ UNCHANGED <<config, main, cache, cache_lock, now, log, sent, call>>
LogAcquire(h) ==
    /\ th[h].pc = "log"
    /\ log_lock = None
    /\ log_lock' = Some(h)
    /\ th' = [th EXCEPT ![h].pc = "log_cs"]
    /\ UNCHANGED <<config, main, cache, cache_lock, now, log, sent, call>>

\* _handle_request, lines 470-482, and log_event, lines 92-106: one row.
\* The identifier is the one drawn before the loop.
LogWriteDrawsIdPerRow(h) ==
    /\ th[h].pc = "log_cs"
    /\ log_lock' = None
    /\ LET loc == th[h]
           event == loc.trace[loc.log_pos]
       IN  /\ log' = Append(log,
                      [timestamp |-> event.event_time, domain |-> loc.qname,
                       mode |-> IF loc.recursion_requested THEN "recursive"
                                ELSE "iterative",
                       server_contacted |-> event.server, step |-> event.step,
                       response_or_referral |-> event.response,
                       rtt_s |-> event.rtt, total_time_s |-> event.total_time,
                       cache_status |-> IF loc.cache_hit THEN "HIT"
                                        ELSE event.cache_status,
                       request_id |-> uuid4(h, loc.log_pos - 1)])
           /\ th' = [th EXCEPT ![h] =
                       [loc EXCEPT !.log_pos = @ + 1,
                                   !.pc = IF loc.log_pos = Len(loc.trace)
                                          THEN "send" ELSE "log"]]
    /\ UNCHANGED <<config, main, cache, cache_lock, now, sent, call>>
LogWrite(h) ==
    /\ th[h].pc = "log_cs"
    /\ log_lock' = None
    /\ LET loc == th[h]
           event == loc.trace[loc.log_pos]
       IN  /\ log' = Append(log,
                      [timestamp |-> event.event_time, domain |-> loc.qname,
                       mode |-> IF loc.recursion_requested THEN "recursive"
                                ELSE "iterative",
                       server_contacted |-> event.server, step |-> event.step,
                       response_or_referral |-> event.response,
                       rtt_s |-> event.rtt, total_time_s |-> event.total_time,
                       cache_status |-> IF loc.cache_hit THEN "HIT"
                                        ELSE event.cache_status,
                       request_id |-> loc.request_id])
           /\ th' = [th EXCEPT ![h] =
                       [loc EXCEPT !.log_pos = @ + 1,
                                   !.pc = IF loc.log_pos = Len(loc.trace)
                                          THEN "send" ELSE "log"]]
    /\ UNCHANGED <<config, main, cache, cache_lock, now, sent, call>>

\* log_event, lines 92-106: writerow or flush raises (an I/O error, or the
\* file was closed by ResolverLogger.close); the with statement releases the
\* lock and the exception ends the thread, nothing in _handle_request
\* catching it.
LogWriteRaises(h) ==
    /\ th[h].pc = "log_cs"
    /\ log_lock' = None
    /\ th' = [th EXCEPT ![h] = Crashed]
    /\ UNCHANGED <<config, main, cache, cache_lock, now, log, sent, call>>

\* _handle_request, lines 459-466 and 484-487: the response is sent; an OSError
\* of sendto is swallowed.
SendRaFromRequest(h, delivered) ==
    /\ th[h].pc = "send"
    /\ sent' = IF delivered
               THEN Append(sent,
                      [to |-> th[h].addr, id |-> th[h].data.id, rd |-> th[h].data.rd,
                       ra |-> th[h].data.rd,
                       question |-> th[h].data.question,
                       answer |-> th[h].answers, rcode |-> th[h].rcode])
               ELSE sent
    /\ th' = [th EXCEPT ![h] = Ended]
    /\ UNCHANGED <<config, main, cache, cache_lock, now, log, log_lock, call>>
Send(h, delivered) ==
    /\ th[h].pc = "send"
    /\ sent' = IF delivered
               THEN Append(sent,
                      [to |-> th[h].addr, id |-> th[h].data.id, rd |-> th[h].data.rd,
                       ra |-> th[h].recursion_requested,
                       question |-> th[h].data.question,
                       answer |-> th[h].answers, rcode |-> th[h].rcode])
               ELSE sent
    /\ th' = [th EXCEPT ![h] = Ended]
    /\ UNCHANGED <<config, main, cache, cache_lock, now, log, log_lock, call>>

(***************************************************************************)
(* The resolution engine: one request, every reply the servers may give.   *)
(* The cache is empty or holds what an earlier resolution stored.          *)
(***************************************************************************)
Handlers == {1}

StoredEarlier == CacheWrite(<<>>, NameLowerA, RdtypeA, AnswerA, 1)

Init ==
    /\ cache_enabled \in BOOLEAN
    /\ cache \in IF cache_enabled THEN {<<>>, StoredEarlier} ELSE {<<>>}
    /\ recursive_default \in BOOLEAN
    /\ root_servers = ROOT_SERVERS
    /\ cache_lock = None
    /\ now = 0
    /\ th = [h \in Handlers |-> IdleThread]
    /\ log = <<>>
    /\ log_lock = None
    /\ sent = <<>>
    /\ call = NoCall
    /\ main = "serving"

RecvAny(h) == \E data \in Datagrams, delay \in RecvDelays : Recv(h, data, delay)
RecursiveLookupAny(h) ==
    \E outcome \in RecursiveOutcomes, delay \in Delays : RecursiveLookup(h, outcome, delay)
QueryServerAny(h) ==
    \E outcome \in QueryOutcomes, delay \in Delays : QueryServer(h, outcome, delay)
ResolveNsAny(h) ==
    \E outcome \in ResolveOutcomes, delay \in Delays : ResolveNs(h, outcome, delay)
SendAny(h) == \E delivered \in BOOLEAN : Send(h, delivered)

Step(h) ==
    \/ RecvAny(h)
    \/ Decode(h)
    \/ LookupAcquire(h)
    \/ LookupBody(h)
    \/ RecursiveLookupAny(h)
    \/ QueryServerAny(h)
    \/ ResolveNsAny(h)
    \/ StoreAcquire(h)
    \/ StoreWrite(h)
    \/ Respond(h)
    \/ LogAcquire(h)
    \/ LogWrite(h)
    \/ LogWriteRaises(h)
    \/ SendAny(h)

Next == \E h \in Handlers : Step(h)

Spec == Init /\ [][Next]_vars

(***************************************************************************)
(* Two handler threads at once: serve starts a thread per datagram and     *)
(* does not wait for it, so requests for the same name (in any case) or    *)
(* for distinct names run interleaved over the one cache and the one log.  *)
(***************************************************************************)
ConcHandlers == {1, 2}

ConcDatagrams ==
    { Query(NameUpperA, RdtypeA, FALSE), Query(NameLowerA, RdtypeA, TRUE),
      Query(NameLowerB, RdtypeA, FALSE) }

\* Two servers may answer the same question with different record sets.
ConcQueryOutcomes ==
    { Response(ReplyAnswer(AnswerA)), Response(ReplyAnswer(AnswerCnameA)),
      Response(ReplyNsOnly), TimedOut }

ConcRecursiveOutcomes == { Response(ReplyAnswer(AnswerCnameA)), TimedOut }

\* The upstream resolver finds no address for the NS names.
ConcResolveOutcomes ==
    { [kind |-> "resolved",
       upstream |-> [n \in {"ns1.", "ns2."} |->
                        IF n = "ns1." THEN Failed ELSE Resolved(<<>>)]] }

ConcInit ==
    /\ cache_enabled = TRUE
    /\ cache = <<>>
    /\ recursive_default = FALSE
    /\ root_servers = <<ROOT_SERVERS[1]>>
    /\ cache_lock = None
    /\ now = 0
    /\ th = [h \in ConcHandlers |-> IdleThread]
    /\ log = <<>>
    /\ log_lock = None
    /\ sent = <<>>
    /\ call = NoCall
    /\ main = "serving"

ConcRecv(h) == \E data \in ConcDatagrams, delay \in RecvDelays : Recv(h, data, delay)
ConcRecursiveLookup(h) ==
    \E outcome \in ConcRecursiveOutcomes, delay \in Delays :
        RecursiveLookup(h, outcome, delay)
ConcQueryServer(h) ==
    \E outcome \in ConcQueryOutcomes, delay \in Delays : QueryServer(h, outcome, delay)
ConcResolveNs(h) ==
    \E outcome \in ConcResolveOutcomes, delay \in Delays : ResolveNs(h, outcome, delay)
ConcSend(h) == Send(h, TRUE)

ConcStep(h) ==
    \/ ConcRecv(h)
    \/ Decode(h)
    \/ LookupAcquire(h)
    \/ LookupBody(h)
    \/ ConcRecursiveLookup(h)
    \/ ConcQueryServer(h)
    \/ ConcResolveNs(h)
    \/ StoreAcquire(h)
    \/ StoreWrite(h)
    \/ Respond(h)
    \/ LogAcquire(h)
    \/ LogWrite(h)
    \/ LogWriteRaises(h)
    \/ ConcSend(h)

ConcNext == \E h \in ConcHandlers : ConcStep(h)

ConcSpec == ConcInit /\ [][ConcNext]_vars

(***************************************************************************)
(* The main thread next to a handler thread.  main() runs serve(), and on  *)
(* CTRL-C runs shutdown() and close() and returns; the handler threads are *)
(* daemon threads that main() never joins.                                 *)
(***************************************************************************)
\* The socket is open until serve's finally clause closes it (line 435).
SocketOpen == main = "serving"
\* The log file is open until ResolverLogger.close closes it (line 110).
LogFileOpen == main \in {"serving", "interrupted", "shutdown"}
\* The interpreter ends the daemon threads when main() has returned.
ProcessRunning == main # "exited"

\* serve, lines 428-435: KeyboardInterrupt is raised in recvfrom; it is not an
\* OSError, so it leaves the loop through the finally clause, which closes
\* the socket.
Interrupt ==
    /\ main = "serving"
    /\ main' = "interrupted"
    /\ UNCHANGED <<config, cache, cache_lock, now, th, log, log_lock, sent, call>>

\* main, lines 523-527, and shutdown, lines 437-442: the event is set and the
\* socket closed once more.
Shutdown ==
    /\ main = "interrupted"
    /\ main' = "shutdown"
    /\ UNCHANGED <<config, cache, cache_lock, now, th, log, log_lock, sent, call>>

\* close, lines 489-490, and ResolverLogger.close, lines 108-110: the file is
\* closed under the logger's lock.
Close ==
    /\ main = "shutdown"
    /\ log_lock = None
    /\ main' = "closed"
    /\ UNCHANGED <<config, cache, cache_lock, now, th, log, log_lock, sent, call>>

\* main, line 528: main() returns and the process exits.
Exit ==
    /\ main = "closed"
    /\ main' = "exited"
    /\ UNCHANGED <<config, cache, cache_lock, now, th, log, log_lock, sent, call>>

\* serve, lines 428-433: a datagram is taken only by the running loop.
ShutRecv(h) == SocketOpen /\ ConcRecv(h)
\* log_event, lines 92-106: a row is written to the open file; writing to a
\* closed file raises ValueError.
ShutLogWrite(h) == LogFileOpen /\ LogWrite(h)
ShutLogWriteRaises(h) == ~LogFileOpen /\ LogWriteRaises(h)
\* _handle_request, lines 484-487: sendto on the closed socket raises OSError.
ShutSend(h) == Send(h, SocketOpen)

ShutInit ==
    /\ cache_enabled = TRUE
    /\ cache = <<>>
    /\ recursive_default = FALSE
    /\ root_servers = <<ROOT_SERVERS[1]>>
    /\ cache_lock = None
    /\ now = 0
    /\ th = [h \in Handlers |-> IdleThread]
    /\ log = <<>>
    /\ log_lock = None
    /\ sent = <<>>
    /\ call = NoCall
    /\ main = "serving"

ShutStep(h) ==
    /\ ProcessRunning
    /\ \/ ShutRecv(h)
       \/ Decode(h)
       \/ LookupAcquire(h)
       \/ LookupBody(h)
       \/ ConcRecursiveLookup(h)
       \/ ConcQueryServer(h)
       \/ ConcResolveNs(h)
       \/ StoreAcquire(h)
       \/ StoreWrite(h)
       \/ Respond(h)
       \/ LogAcquire(h)
       \/ ShutLogWrite(h)
       \/ ShutLogWriteRaises(h)
       \/ ShutSend(h)

ShutNext ==
    \/ \E h \in Handlers : ShutStep(h)
    \/ Interrupt
    \/ Shutdown
    \/ Close
    \/ Exit

ShutSpec == ShutInit /\ [][ShutNext]_vars

(***************************************************************************)
(* The lookup loop followed without end.  Nothing in _iterative_lookup     *)
(* reads the trace it has built, so the loop is followed here with only    *)
(* the last MaxKept events of the trace kept; every query returns within   *)
(* one reading of the clock.  The handler is always given its next step.   *)
(***************************************************************************)
MaxKept == 2

\* A referral whose glue is a root server: it points back to where the
\* resolution started.
ReplyGlueBack ==
    Message(NOERROR, <<>>, <<Section(RdtypeNS, 2, <<"a.root.">>)>>,
            <<Section(RdtypeA, 2, <<ROOT_SERVERS[1]>>)>>)

LoopQueryOutcomes ==
    { Response(ReplyGlue), Response(ReplyGlueBack), Response(ReplyNsOnly),
      Response(ReplyAnswer(AnswerA)), Response(ReplyNoData), TimedOut }

LoopRecursiveOutcomes == { Response(ReplyAnswer(AnswerA)), TimedOut }

LoopResolveOutcomes == { [kind |-> "resolved", upstream |-> u] : u \in Upstreams }

KeptOf(events) ==
    IF Len(events) > MaxKept
    THEN SubSeq(events, Len(events) - MaxKept + 1, Len(events)) ELSE events

Kept(loc) ==
    [loc EXCEPT !.trace = KeptOf(@), !.contacted = KeptOf(@), !.hops = 0]

LoopInit ==
    /\ cache_enabled \in BOOLEAN
    /\ cache = <<>>
    /\ recursive_default = FALSE
    /\ root_servers = <<ROOT_SERVERS[1], ROOT_SERVERS[2]>>
    /\ cache_lock = None
    /\ now = 0
    /\ th = [h \in Handlers |-> IdleThread]
    /\ log = <<>>
    /\ log_lock = None
    /\ sent = <<>>
    /\ call = NoCall
    /\ main = "serving"

LoopRecv(h) == \E rd \in BOOLEAN : Recv(h, Query(NameUpperA, RdtypeA, rd), 0)

LoopRecursiveLookup(h) ==
    \E outcome \in LoopRecursiveOutcomes : RecursiveLookup(h, outcome, 0)

LoopQueryServer(h) ==
    /\ th[h].pc = "query"
    /\ \E outcome \in LoopQueryOutcomes :
          th' = [th EXCEPT ![h] = Kept(AfterQuery(th[h], outcome, 0, cache_enabled, now))]
    /\ UNCHANGED <<config, main, cache, cache_lock, now, log, log_lock, sent, call>>

LoopResolveNs(h) ==
    /\ th[h].pc = "resolve_ns"
    /\ \E outcome \in LoopResolveOutcomes :
          th' = [th EXCEPT ![h] = Kept(AfterResolveNs(th[h], outcome, cache_enabled, now))]
    /\ UNCHANGED <<config, main, cache, cache_lock, now, log, log_lock, sent, call>>

LoopStep(h) ==
    \/ LoopRecv(h)
    \/ Decode(h)
    \/ LookupAcquire(h)
    \/ LookupBody(h)
    \/ LoopRecursiveLookup(h)
    \/ LoopQueryServer(h)
    \/ LoopResolveNs(h)
    \/ StoreAcquire(h)
    \/ StoreWrite(h)
    \/ Respond(h)
    \/ LogAcquire(h)
    \/ LogWrite(h)
    \/ LogWriteRaises(h)
    \/ SendAny(h)

LoopNext == \E h \in Handlers : LoopStep(h)

LoopSpec == LoopInit /\ [][LoopNext]_vars /\ WF_vars(LoopNext)

(***************************************************************************)
(* Properties of the answer cache.                                         *)
(***************************************************************************)
\* A record set as _cache_store's contract describes the uncacheable ones: no
\* record carries a TTL, or some TTL is <= 0 (so the minimum is).
NoTtlOrNonPositive(rrsets) ==
    \/ \A i \in DOMAIN rrsets : "ttl" \notin DOMAIN rrsets[i]
    \/ \E i \in DOMAIN rrsets : "ttl" \in DOMAIN rrsets[i] /\ rrsets[i].ttl <= 0

\* C1: _cache_lookup returns records only when the clock is strictly before the
\* entry's expiry, and then the entry's records; a lookup at or after the expiry
\* returns None and leaves the cache without an entry for that key.
C1_LookupOnlyWhileFresh ==
    call.op = "lookup" =>
        /\ call.ret # None =>
              /\ call.before # None
              /\ call.at < call.before[1].expiry
              /\ call.ret = Some(call.before[1].rrsets)
        /\ (call.before # None /\ call.at >= call.before[1].expiry) =>
              /\ call.ret = None
              /\ <<Lower(call.qname), call.qtype>> \notin DOMAIN cache
        /\ call.before = None => call.ret = None

\* C1 witness: a lookup made exactly at the expiry of a stored entry.
C1_Witness ==
    /\ call.op = "lookup"
    /\ call.before # None
    /\ call.at = call.before[1].expiry
    /\ call.ret = None

\* C2: _cache_store with a record set whose minimum TTL is <= 0, or with no
\* record carrying a TTL, leaves the whole cache mapping as it was.
C2_UncacheableStoreIsNoOp ==
    [][(call' # call /\ call'.op = "store" /\ NoTtlOrNonPositive(call'.rrsets))
          => cache' = cache]_vars

\* C2 witness: such a store was made on a cache that held an entry for the key
\* and an entry for another key.
C2_Witness ==
    /\ call.op = "store"
    /\ NoTtlOrNonPositive(call.rrsets)
    /\ call.rrsets # <<>>
    /\ call.before # None
    /\ Cardinality(DOMAIN cache) >= 2

\* The last call is a lookup of (name, type) that directly follows a store for
\* the same (name, type) whose record set has a minimum TTL <= 0.
LookupAfterUncacheableStore ==
    /\ call.op = "lookup"
    /\ call.prev.op = "store"
    /\ TtlValues(call.prev.rrsets) # <<>>
    /\ NoTtlOrNonPositive(call.prev.rrsets)
    /\ call.prev.qname = call.qname
    /\ call.prev.qtype = call.qtype

\* C3 as claimed: after _cache_store with minimum TTL <= 0 the next
\* _cache_lookup of the key returns None, whatever the cache held.
C3_AsClaimed ==
    LookupAfterUncacheableStore => call.ret = None

\* C3 amended: the next lookup returns what it would have returned without
\* the store: the records of the entry stored earlier while that one is fresh,
\* else None; never the records of the uncacheable store.
C3_LookupUnaffectedByUncacheableStore ==
    LookupAfterUncacheableStore =>
        /\ call.ret # Some(call.prev.rrsets)
        /\ call.ret = IF call.prev.before # None
                         /\ call.at < call.prev.before[1].expiry
                      THEN Some(call.prev.before[1].rrsets)
                      ELSE None

\* C3 witness: a lookup right after an uncacheable store returns the records
\* of the entry stored before that store.
C3_Witness ==
    /\ LookupAfterUncacheableStore
    /\ call.ret # None
    /\ call.at > call.prev.at

(***************************************************************************)
(* Properties of the resolution engine.                                    *)
(***************************************************************************)
\* The positions of a handler after resolve has returned.
AfterResolve == {"resolved", "log", "log_cs", "send"}

\* The answer sections of the NOERROR responses a resolution may receive.
NoErrorAnswers ==
    { o.msg.answer : o \in { x \in QueryOutcomes \cup RecursiveOutcomes :
                               x.kind = "response" /\ x.msg.rcode = NOERROR } }

\* C4: a resolution that ends with NXDOMAIN or with an empty answer list never
\* writes the cache: every cache entry holds a non-empty record set taken from
\* a NOERROR response, only a handler holding such a result is on its way to
\* the cache, and a lookup of the key right after such a resolution finds
\* nothing.
C4_NegativeResultsNeverCached ==
    /\ \A key \in DOMAIN cache :
          /\ cache[key].rrsets # <<>>
          /\ cache[key].rrsets \in NoErrorAnswers
    /\ \A h \in DOMAIN th :
          /\ th[h].pc \in {"store", "store_cs"} =>
                /\ th[h].rcode = NOERROR
                /\ th[h].answers # <<>>
                /\ th[h].response # None => th[h].response[1].rcode = NOERROR
          /\ (th[h].pc = "resolved" /\ (th[h].rcode = NXDOMAIN \/ th[h].answers = <<>>)) =>
                <<Lower(th[h].qname), th[h].qtype>> \notin DOMAIN cache

\* C4 witness: a resolution has just ended with an NXDOMAIN response whose
\* answer section was not empty.
C4_Witness ==
    \E h \in DOMAIN th :
        /\ th[h].pc = "resolved"
        /\ th[h].rcode = NXDOMAIN
        /\ th[h].response # None
        /\ th[h].response[1].answer # <<>>
        /\ th[h].answers = <<>>

\* The key of the handler's question is in the cache and not expired.
FreshInCache(h) ==
    /\ <<Lower(th[h].qname), th[h].qtype>> \in DOMAIN cache
    /\ now < cache[<<Lower(th[h].qname), th[h].qtype>>].expiry

\* C5: a request whose (name, type) is fresh in the cache is resolved by the
\* lookup alone: no server is contacted, the trace is one event with
\* cache_status HIT, rtt 0 and total_time 0, and the rcode is NOERROR; and the
\* handler contacts no server afterwards.
C5_CacheHitSingleEvent ==
    /\ [][\A h \in DOMAIN th :
            (th[h].pc = "lookup_cs" /\ th'[h].pc # "lookup_cs" /\ FreshInCache(h)) =>
                /\ th'[h].pc = "resolved"
                /\ th'[h].cache_hit
                /\ th'[h].answers = cache[<<Lower(th[h].qname), th[h].qtype>>].rrsets]_vars
    /\ [](\A h \in DOMAIN th :
            (th[h].pc \in AfterResolve /\ th[h].cache_hit) =>
                /\ th[h].contacted = <<>>
                /\ Len(th[h].trace) = 1
                /\ th[h].trace[1].cache_status = "HIT"
                /\ th[h].trace[1].rtt = 0
                /\ th[h].trace[1].total_time = 0
                /\ th[h].rcode = NOERROR)

\* C5 witness: a request was answered from the cache.
C5_Witness ==
    \E h \in DOMAIN th :
        /\ th[h].pc = "send"
        /\ th[h].cache_hit
        /\ th[h].answers # <<>>
        /\ Len(log) = 1

\* The servers queried over UDP by the handler, in order.
Queried(h) == SelectSeq(th[h].contacted, LAMBDA c : c.kind = "udp")

\* C6 as claimed: in the iterative path every server contacted produces
\* exactly one TraceEvent, the servers that time out included.
C6_AsClaimed ==
    \A h \in DOMAIN th :
        th[h].pc \in {"query", "resolve_ns"} => Len(th[h].trace) = Len(Queried(h))

RECURSIVE Concat(_)
\* The concatenation of a sequence of sequences.
Concat(seqs) == IF seqs = <<>> THEN <<>> ELSE Head(seqs) \o Concat(Tail(seqs))

\* The glue addresses of a response: the items of the A and AAAA record sets of
\* its additional section, in the order of the section.
GlueAddresses(r) ==
    Concat([i \in DOMAIN r.additional |->
               IF r.additional[i].rdtype \in {RdtypeA, RdtypeAAAA}
               THEN r.additional[i].items ELSE <<>>])

\* The NS names of a response: the items of the NS record sets of its
\* authority section, in order.
NsNames(r) ==
    Concat([i \in DOMAIN r.authority |->
               IF r.authority[i].rdtype = RdtypeNS THEN r.authority[i].items ELSE <<>>])

\* The step is a query of handler h that received a response which is neither
\* a NOERROR answer nor NXDOMAIN; the response is th'[h].response[1].
ReceivedReferralOrOther(h) ==
    /\ th[h].pc = "query"
    /\ th'[h].pc # "crashed"
    /\ Len(th'[h].trace) = Len(th[h].trace) + 1
    /\ ~(th'[h].response[1].rcode = NOERROR /\ th'[h].response[1].answer # <<>>)
    /\ th'[h].response[1].rcode # NXDOMAIN

\* C7: when such a response carries glue addresses, the candidate list of the
\* next phase is exactly those addresses in extraction order, its first server
\* is the next one queried (the rest of the current list is not contacted),
\* and no NS name is resolved.
C7_GlueBecomesCandidates ==
    [][\A h \in DOMAIN th :
          (ReceivedReferralOrOther(h) /\ GlueAddresses(th'[h].response[1]) # <<>>) =>
              /\ th'[h].servers = GlueAddresses(th'[h].response[1])
              /\ th'[h].pc = "query"
              /\ th'[h].idx = 1
              /\ th'[h].contacted =
                    Append(th[h].contacted,
                           [kind |-> "udp", server |-> th[h].servers[th[h].idx]])]_vars

\* C7 witness: the first root server sent a referral with two glue addresses,
\* which are now the candidates; the other root servers were not contacted.
C7_Witness ==
    \E h \in DOMAIN th :
        /\ th[h].pc = "query"
        /\ th[h].idx = 1
        /\ th[h].response # None
        /\ th[h].servers = GlueAddresses(th[h].response[1])
        /\ Len(th[h].servers) = 2
        /\ Len(th[h].contacted) = 1
        /\ Len(root_servers) = 3

\* C8: a referral with NS names and no glue leads to _resolve_ns_addresses
\* with the candidate list untouched; when that returns no address the list
\* and the phase stay as they are and the next server of the list, if any, is
\* queried (the lookup ends when there is none); when it returns addresses
\* they become the candidate list of the next phase.
C8_NsNamesResolvedFirst ==
    [][\A h \in DOMAIN th :
          /\ (/\ ReceivedReferralOrOther(h)
              /\ GlueAddresses(th'[h].response[1]) = <<>>
              /\ NsNames(th'[h].response[1]) # <<>>) =>
                 /\ th'[h].pc = "resolve_ns"
                 /\ th'[h].ns_names = NsNames(th'[h].response[1])
                 /\ th'[h].servers = th[h].servers
                 /\ th'[h].idx = th[h].idx
                 /\ th'[h].step_name = th[h].step_name
          /\ (th[h].pc # "resolve_ns" /\ th'[h].servers # th[h].servers
                 /\ th[h].pc = "query" /\ th'[h].pc # "crashed") =>
                 GlueAddresses(th'[h].response[1]) # <<>>
          /\ (th[h].pc = "resolve_ns" /\ th'[h].pc # "crashed") =>
                 /\ th'[h].contacted[Len(th'[h].contacted)].kind = "resolve_ns"
                 /\ Len(th'[h].contacted) = Len(th[h].contacted) + 1
                 /\ IF th'[h].resolved_ips[1] = <<>>
                    THEN /\ th'[h].servers = th[h].servers
                         /\ th'[h].step_name = th[h].step_name
                         /\ IF th[h].idx < Len(th[h].servers)
                            THEN th'[h].pc = "query" /\ th'[h].idx = th[h].idx + 1
                            ELSE th'[h].pc = "resolved" /\ th'[h].answers = <<>>
                    ELSE /\ th'[h].servers = th'[h].resolved_ips[1]
                         /\ th'[h].pc = "query"
                         /\ th'[h].idx = 1]_vars

\* C8 witness: the resolution of the NS names of the first root server's
\* referral gave no address, and the second root server is the next to query.
C8_Witness ==
    \E h \in DOMAIN th :
        /\ th[h].pc = "query"
        /\ th[h].idx = 2
        /\ th[h].servers = root_servers
        /\ th[h].resolved_ips = Some(<<>>)
        /\ Len(th[h].contacted) = 2
        /\ th[h].contacted[2].kind = "resolve_ns"

(***************************************************************************)
(* Properties of the cache under concurrent handlers.                      *)
(***************************************************************************)
\* Cache keys that stand for the same (name, type): equal up to letter case.
SameQuestion(k1, k2) == Lower(k1[1]) = Lower(k2[1]) /\ k1[2] = k2[2]

\* The handler h is inside _cache_store's critical section, called with the
\* arguments (qname, qtype, rrsets) = (th[h].qname, th[h].qtype, th[h].answers).
InStore(h) == th[h].pc = "store_cs"

\* C9: under every interleaving of two handler threads resolving the same name
\* (in either letter case) or distinct names with the cache enabled, the cache
\* holds at most one entry per (name, type), and every step that creates or
\* changes an entry makes it the complete record set, in order, of the one
\* _cache_store call that is running: never a mix of two stores' records and
\* never a part of a set (the last writer wins).
C9_OneCompleteStorePerEntry ==
    /\ [](\A k1 \in DOMAIN cache : \A k2 \in DOMAIN cache :
             SameQuestion(k1, k2) => k1 = k2)
    /\ [][\A key \in DOMAIN cache' :
             (key \notin DOMAIN cache \/ cache'[key] # cache[key])
                => \E h \in DOMAIN th :
                      /\ InStore(h)
                      /\ key = <<Lower(th[h].qname), th[h].qtype>>
                      /\ cache'[key].rrsets = th[h].answers
                      /\ cache'[key].expiry = th[h].expiry]_vars

\* C9_Witness: both handlers resolved the same name (asked in different letter
\* case), each was answered with a different record set and stored it, and the
\* single entry of the key holds the second handler's complete set.
C9_Witness ==
    /\ DOMAIN th = ConcHandlers
    /\ th[1].pc = "resolved" /\ ~th[1].cache_hit /\ th[1].expiry # 0
    /\ th[2].pc = "resolved" /\ ~th[2].cache_hit /\ th[2].expiry # 0
    /\ th[1].qname # th[2].qname
    /\ Lower(th[1].qname) = Lower(th[2].qname)
    /\ th[1].answers = AnswerA
    /\ th[2].answers = AnswerCnameA
    /\ DOMAIN cache = {<<NameLowerA, RdtypeA>>}
    /\ cache[<<NameLowerA, RdtypeA>>].rrsets = AnswerCnameA

(***************************************************************************)
(* The wire codec of custom_dns_resolver.py.  A bytes object is a sequence *)
(* of 0..255, a str is the sequence of its character codes, and offsets    *)
(* count from 0 as in the code.                                            *)
(***************************************************************************)

\* struct.pack("!H", n), struct.pack("!I", n) and struct.unpack("!H", b)[0]
PackH(n) == <<(n \div 256) % 256, n % 256>>
PackI(n) == <<(n \div 16777216) % 256, (n \div 65536) % 256, (n \div 256) % 256, n % 256>>
UnpackH(b) == b[1] * 256 + b[2]

\* data[i] for i >= 0: defined when InRange, IndexError otherwise.
InRange(data, i) == i < Len(data)
At(data, i) == data[i + 1]

\* data[a:b]: a slice never raises, it ends where data ends.
Slice(data, a, b) == SubSeq(data, a + 1, IF b < Len(data) THEN b ELSE Len(data))

\* x.encode(): UTF-8, for the characters below U+0800.
RECURSIVE Encode(_)
Encode(x) ==
    IF x = <<>> THEN <<>>
    ELSE (IF Head(x) < 128 THEN <<Head(x)>>
          ELSE <<192 + (Head(x) \div 64), 128 + (Head(x) % 64)>>) \o Encode(Tail(x))

\* b.decode(errors="ignore") of bytes that hold ASCII and stray bytes >= 128
\* forming no UTF-8 sequence: the stray bytes are dropped.
Decode_(b) == SelectSeq(b, LAMBDA c : c < 128)

\* domain.split("."): cur is the piece being read.
RECURSIVE SplitFrom(_, _)
SplitFrom(s, cur) ==
    IF s = <<>> THEN <<cur>>
    ELSE IF Head(s) = Dot THEN <<cur>> \o SplitFrom(Tail(s), <<>>)
    ELSE SplitFrom(Tail(s), Append(cur, Head(s)))
split(s) == SplitFrom(s, <<>>)

\* sep.join(parts)
RECURSIVE Join(_, _)
Join(sep, parts) ==
    IF parts = <<>> THEN <<>>
    ELSE IF Len(parts) = 1 THEN parts[1]
    ELSE parts[1] \o sep \o Join(sep, Tail(parts))

\* str(n) and int(s) for n >= 0
RECURSIVE Str(_)
Str(n) == IF n < 10 THEN <<Digit0 + n>> ELSE Str(n \div 10) \o <<Digit0 + (n % 10)>>
RECURSIVE Int_(_)
Int_(s) ==
    IF s = <<>> THEN 0
    ELSE Int_(SubSeq(s, 1, Len(s) - 1)) * 10 + (s[Len(s)] - Digit0)

\* build_query, lines 26-29, with the transaction id random.randint drew.
build_query(domain, tid) ==
    LET header == PackH(tid) \o PackH(256) \o PackH(1) \o PackH(0) \o PackH(0) \o PackH(0)
        labels == split(domain)
        qname == Join(<<>>, [i \in DOMAIN labels |->
                               <<Len(labels[i])>> \o Encode(labels[i])]) \o <<0>>
        question == qname \o PackH(1) \o PackH(1)
    IN  [tid |-> tid, packet |-> header \o question]

\* parse_response, lines 49 and 67: byte & 0xC0 == 0xC0
IsPointerNever(b) == FALSE
IsPointer(b) == b \div 64 = 3

\* The offset a raised exception leaves no use for.
RaisedAt == -1

\* parse_response, lines 44-45 and 52-53: the offset of the null byte the
\* label walk stops at, or RaisedAt when it runs off the end (IndexError).
RECURSIVE SkipLabels(_, _)
SkipLabels(data, offset) ==
    IF ~InRange(data, offset) THEN RaisedAt
    ELSE IF At(data, offset) = 0 THEN offset
    ELSE SkipLabels(data, offset + At(data, offset) + 1)

\* parse_response, lines 64-71: the labels of an NS name read from index i.
RECURSIVE NsLabels(_, _)
NsLabels(rdata, i) ==
    IF ~(i < Len(rdata) /\ At(rdata, i) # 0) THEN <<>>
    ELSE IF IsPointer(At(rdata, i)) THEN <<>>
    ELSE <<Decode_(Slice(rdata, i + 1, i + 1 + At(rdata, i)))>>
         \o NsLabels(rdata, i + At(rdata, i) + 1)

\* parse_response, lines 48-72: the records left to read from offset on; an
\* exception ends the loop and what was collected is returned (lines 73-75).
\* raised tells that the except clause was entered; it is no part of the
\* tuple returned.
Returned(ips, nss, raised) == [ips |-> ips, nss |-> nss, raised |-> raised]

RECURSIVE ParseRecords(_, _, _, _, _)
ParseRecords(data, offset, remaining, ips, nss) ==
    IF remaining = 0 THEN Returned(ips, nss, FALSE)
    ELSE IF ~InRange(data, offset) THEN Returned(ips, nss, TRUE)
    ELSE LET after == IF IsPointer(At(data, offset)) THEN offset + 2
                      ELSE IF SkipLabels(data, offset) = RaisedAt THEN RaisedAt
                      ELSE SkipLabels(data, offset) + 1
         IN  IF after = RaisedAt THEN Returned(ips, nss, TRUE)
             ELSE IF Len(Slice(data, after, after + 10)) # 10
             THEN Returned(ips, nss, TRUE)
             ELSE LET rtype == UnpackH(Slice(data, after, after + 2))
                      rdlength == UnpackH(Slice(data, after + 8, after + 10))
                      rdata == Slice(data, after + 10, after + 10 + rdlength)
                      next == after + 10 + rdlength
                  IN  IF rtype = 1 /\ rdlength = 4
                      THEN ParseRecords(data, next, remaining - 1,
                               Append(ips, Join(<<Dot>>,
                                                [i \in DOMAIN rdata |-> Str(rdata[i])])),
                               nss)
                      ELSE IF rtype = 2
                      THEN ParseRecords(data, next, remaining - 1, ips,
                               Append(nss, Join(<<Dot>>, NsLabels(rdata, 0))))
                      ELSE ParseRecords(data, next, remaining - 1, ips, nss)

\* parse_response: the tuple (ips, nss) it returns.
parse_response(data) ==
    IF Len(data) < 12 THEN Returned(<<>>, <<>>, TRUE)
    ELSE LET total == UnpackH(Slice(data, 6, 8)) + UnpackH(Slice(data, 8, 10))
                      + UnpackH(Slice(data, 10, 12))
         IN  IF total = 0 THEN Returned(<<>>, <<>>, FALSE)
             ELSE IF SkipLabels(data, 12) = RaisedAt THEN Returned(<<>>, <<>>, TRUE)
             ELSE ParseRecords(data, SkipLabels(data, 12) + 5, total, <<>>, <<>>)

\* main, line 175: bytes(map(int, ip.split(".")))
AddressBytes(ip) == [i \in DOMAIN split(ip) |-> Int_(split(ip)[i])]

\* "example.com", "a.b" and "com"
ExampleCom == <<101, 120, 97, 109, 112, 108, 101, 46, 99, 111, 109>>
Domains == { ExampleCom, <<97, 46, 98>>, <<99, 111, 109>> }

\* What random.randint(0, 65535) may draw.
TransactionIds == { 0, 4660, 65535 }

Addresses == { <<93, 184, 216, 34>>, <<0, 0, 0, 0>>, <<255, 255, 255, 255>>, <<10, 0, 0, 5>> }
Ttls == { 0, 60, 300 }

\* A response to the query, built the way main builds its reply (lines
\* 163-176): the id and the question are copied from the query, and one record
\* follows whose owner name is a pointer to the question or the name spelled
\* out.  An "A" reply carries the address in the answer section, an "NS" reply
\* carries in the authority section the name server "ns." followed by the
\* owner name, an "empty" reply carries no record.
Reply(query, reply) ==
    LET end == SkipLabels(query, 12)
        question == Slice(query, 12, end + 5)
        spelled == Slice(query, 12, end + 1)
        owner == IF reply.owner = "pointer" THEN <<192, 12>> ELSE spelled
        counts == IF reply.kind = "A" THEN PackH(1) \o PackH(0)
                  ELSE IF reply.kind = "NS" THEN PackH(0) \o PackH(1)
                  ELSE PackH(0) \o PackH(0)
        header == Slice(query, 0, 2) \o <<129, 128>> \o PackH(1) \o counts \o PackH(0)
        ns_rdata == <<2, 110, 115>> \o owner
        record == IF reply.kind = "A"
                  THEN owner \o PackH(1) \o PackH(1) \o PackI(reply.ttl) \o PackH(4)
                       \o reply.address
                  ELSE IF reply.kind = "NS"
                  THEN owner \o PackH(2) \o PackH(1) \o PackI(reply.ttl)
                       \o PackH(Len(ns_rdata)) \o ns_rdata
                  ELSE <<>>
    IN  header \o question \o record

Replies ==
    [kind : {"A", "NS"}, owner : {"pointer", "name"}, ttl : Ttls, address : Addresses]
    \cup { [kind |-> "empty", owner |-> "pointer", ttl |-> 0, address |-> <<0, 0, 0, 0>>] }

\* build_query(domain) is called.
CodecBuildQuery(domain, tid) ==
    /\ call.op = "none"
    /\ call' = [op |-> "build_query", domain |-> domain,
                tid |-> build_query(domain, tid).tid,
                packet |-> build_query(domain, tid).packet]
    /\ UNCHANGED <<config, main, cache, cache_lock, now, th, log, log_lock, sent>>

\* sock.recvfrom, line 98: a response to the query arrives.
CodecReceive(reply) ==
    /\ call.op = "build_query"
    /\ call' = [op |-> "recvfrom", domain |-> call.domain, tid |-> call.tid,
                packet |-> call.packet, reply |-> reply,
                data |-> Reply(call.packet, reply)]
    /\ UNCHANGED <<config, main, cache, cache_lock, now, th, log, log_lock, sent>>

\* parse_response(data) is called, and called again on the same bytes.
CodecParse ==
    /\ call.op = "recvfrom"
    /\ call' = [op |-> "parse_response", domain |-> call.domain, tid |-> call.tid,
                packet |-> call.packet, reply |-> call.reply, data |-> call.data,
                ret |-> parse_response(call.data)]
    /\ UNCHANGED <<config, main, cache, cache_lock, now, th, log, log_lock, sent>>

CodecParseAgain ==
    /\ call.op = "parse_response"
    /\ call' = [op |-> "parse_response_again", domain |-> call.domain,
                tid |-> call.tid, packet |-> call.packet, reply |-> call.reply,
                data |-> call.data, ret |-> call.ret,
                again |-> parse_response(call.data)]
    /\ UNCHANGED <<config, main, cache, cache_lock, now, th, log, log_lock, sent>>

CodecInit ==
    /\ cache = <<>>
    /\ cache_enabled = TRUE
    /\ recursive_default = FALSE
    /\ root_servers = ROOT_SERVERS
    /\ cache_lock = None
    /\ now = 0
    /\ th = <<>>
    /\ log = <<>>
    /\ log_lock = None
    /\ sent = <<>>
    /\ call = NoCall
    /\ main = "serving"

CodecBuildQueryAny == \E domain \in Domains, tid \in TransactionIds : CodecBuildQuery(domain, tid)
CodecReceiveAny == \E reply \in Replies : CodecReceive(reply)

CodecNext ==
    \/ CodecBuildQueryAny
    \/ CodecReceiveAny
    \/ CodecParse
    \/ CodecParseAgain

CodecSpec == CodecInit /\ [][CodecNext]_vars

(***************************************************************************)
(* Properties of the codec.                                                *)
(***************************************************************************)
\* "93.184.216.34"
DottedExample == <<57, 51, 46, 49, 56, 52, 46, 50, 49, 54, 46, 51, 52>>

\* parse_response has returned for a response that carries one A record.
ParsedAddressReply ==
    /\ call.op \in {"parse_response", "parse_response_again"}
    /\ call.reply.kind = "A"

\* C10: parse_response of a well-formed response to the question build_query
\* made, carrying one A record, returns an address list of exactly one
\* element, the dotted text of the record's four bytes (turning the text back
\* into bytes gives the record's address), and no name server; for
\* build_query("example.com") and the record 93.184.216.34 with TTL 300 the
\* list is exactly ["93.184.216.34"]; and parse_response of the same bytes
\* again returns the same (ips, nss).
C10_CodecRoundTrip ==
    /\ ParsedAddressReply =>
          /\ Len(call.ret.ips) = 1
          /\ AddressBytes(call.ret.ips[1]) = call.reply.address
          /\ call.ret.nss = <<>>
          /\ (/\ call.domain = ExampleCom
              /\ call.reply.address = <<93, 184, 216, 34>>
              /\ call.reply.ttl = 300)
                => call.ret.ips = <<DottedExample>>
    /\ call.op = "parse_response_again" => call.again = call.ret

\* C10_Witness: the response to build_query("example.com") with the record
\* 93.184.216.34, TTL 300, was decoded twice, to ["93.184.216.34"] both times.
C10_Witness ==
    /\ call.op = "parse_response_again"
    /\ call.domain = ExampleCom
    /\ call.packet = build_query(ExampleCom, call.tid).packet
    /\ call.reply.kind = "A"
    /\ call.reply.address = <<93, 184, 216, 34>>
    /\ call.reply.ttl = 300
    /\ call.ret.ips = <<DottedExample>>
    /\ call.again.ips = <<DottedExample>>

(***************************************************************************)
(* Properties of termination and of error handling.                        *)
(***************************************************************************)
\* The handler is inside _iterative_lookup.
InIterativeLookup(h) == th[h].pc \in {"query", "resolve_ns"}

\* C11 as claimed: every iterative resolution terminates, whatever the
\* contacted servers do (timeouts, answers, referrals, chains of referrals of
\* any length, referrals that point back to servers already visited), given
\* that every single query returns or times out: a handler that is inside
\* _iterative_lookup eventually is no longer inside it.
C11_AsClaimed == \A h \in Handlers : InIterativeLookup(h) ~> ~InIterativeLookup(h)

\* C12 as claimed: every valid request leads to one response datagram,
\* whatever the upstream interactions give (timeout, socket error, a reply
\* that does not decode, NXDOMAIN, a resolver without usable nameservers): no
\* handler thread of a decoded request ends before its sendto, so none is
\* ended by an exception.
C12_AsClaimed == \A h \in DOMAIN th : th[h].pc # "crashed"

\* The response code of the last server that responded to the handler during
\* its resolution, SERVFAIL when none did.
LastObservedRcode(loc) ==
    IF loc.response = None THEN SERVFAIL ELSE loc.response[1].rcode

C14_AsClaimed ==
    \A i \in DOMAIN sent : ~(sent[i].rcode = NOERROR /\ sent[i].answer = <<>>)

\* The datagram the handler was started with does not decode as a DNS message
\* or decodes to a message with no question.
Undecodable(h) ==
    /\ th[h].pc = "start"
    /\ ~th[h].data.ok \/ th[h].data.question = <<>>

\* C15: a datagram that does not decode, or decodes to a message with zero
\* questions, is dropped: the handler's only step ends the thread, sends
\* nothing, logs no row, leaves the cache as it is, and no server was or will
\* be contacted for it (an ended thread takes no further step).
C15_MalformedDropped ==
    /\ [][\A h \in DOMAIN th :
             (Undecodable(h) /\ th'[h] # th[h])
                => /\ th'[h] = Ended
                   /\ th[h].contacted = <<>> /\ th'[h].contacted = <<>>
                   /\ sent' = sent /\ log' = log /\ cache' = cache]_vars
    /\ [][\A h \in DOMAIN th : th[h].pc = "done" => th'[h] = th[h]]_vars

\* C15_Witness: the handler ended without any time passing since the server
\* started (every query takes time and a cache hit logs a row, so its datagram
\* was dropped); nothing was sent or logged and the cache still holds its
\* earlier entry.
C15_Witness ==
    \E h \in DOMAIN th :
        /\ th[h].pc = "done"
        /\ now = 0
        /\ sent = <<>> /\ log = <<>>
        /\ cache = StoredEarlier

\* The handler made a recursive attempt and then ran the iterative path.
FellBackToIterative(h) ==
    /\ th[h].contacted # <<>>
    /\ th[h].contacted[1].kind = "recursive"
    /\ Len(th[h].contacted) > 1

\* C16: on a cache miss with recursion requested, a recursive attempt that
\* times out, ends with NXDOMAIN or returns no answer does not end the
\* resolution: the step that ends the attempt enters the iterative path at the
\* first root server, in phase Root, with an empty trace; and what the handler
\* then holds as the result is the iterative path's result (the answer
\* section of the last response with NOERROR, or no answer with the last
\* observed response code).
C16_RecursiveFailureFallsThrough ==
    /\ [][\A h \in DOMAIN th :
             (th[h].pc = "recursive" /\ th'[h].pc # "crashed" /\ th'[h].answers = <<>>)
                => /\ th'[h].pc = "query"
                   /\ th'[h].servers = root_servers /\ th'[h].idx = 1
                   /\ th'[h].step_name = "Root"
                   /\ th'[h].trace = <<>>]_vars
    /\ [](\A h \in DOMAIN th :
             (th[h].pc \in AfterResolve /\ FellBackToIterative(h))
                => IF th[h].answers = <<>>
                   THEN th[h].rcode = LastObservedRcode(th[h])
                   ELSE /\ th[h].response # None
                        /\ th[h].answers = th[h].response[1].answer
                        /\ th[h].rcode = NOERROR)

\* C16_Witness: a request with recursion requested whose recursive attempt
\* gave nothing was answered by the iterative path.
C16_Witness ==
    \E h \in DOMAIN th :
        /\ th[h].pc = "resolved"
        /\ th[h].recursion_requested
        /\ FellBackToIterative(h)
        /\ th[h].answers = AnswerA
        /\ th[h].response = Some(ReplyAnswer(AnswerA))

\* The handler made a recursive attempt for its request.
AttemptedRecursive(h) ==
    \E i \in DOMAIN th[h].contacted : th[h].contacted[i].kind = "recursive"

\* The rows of the log written for the request of handler h with the step.
RowsOf(h, step) ==
    { i \in DOMAIN log : log[i].request_id = h /\ log[i].step = step }

\* C17 as claimed: whenever a recursive attempt was made for a request,
\* exactly one row with step Recursive is in the log for that request once all
\* its rows are written, whether the attempt succeeded or the engine fell
\* through to the iterative path.
C17_AsClaimed ==
    \A h \in DOMAIN th :
        (th[h].pc = "send" /\ AttemptedRecursive(h))
           => Cardinality(RowsOf(h, "Recursive")) = 1

\* C18: all trace rows logged for one request carry the same cache_status;
\* when the request was served from cache every row of it carries HIT and
\* none carries MISS, and the rows of a request not served from cache carry
\* MISS.
C18_OneCacheStatusPerRequest ==
    /\ \A i \in DOMAIN log : \A j \in DOMAIN log :
          log[i].request_id = log[j].request_id
             => log[i].cache_status = log[j].cache_status
    /\ \A h \in DOMAIN th : \A i \in DOMAIN log :
          (log[i].request_id = h /\ th[h].pc \in {"log", "log_cs", "send"})
             => log[i].cache_status = IF th[h].cache_hit THEN "HIT" ELSE "MISS"

\* C18_Witness: a request served from cache has all its rows written, and
\* its row carries HIT.
C18_Witness ==
    \E h \in DOMAIN th :
        /\ th[h].pc = "send"
        /\ th[h].cache_hit
        /\ RowsOf(h, "CACHE") # {}
        /\ \A i \in DOMAIN log : log[i].request_id = h /\ log[i].cache_status = "HIT"

\* The handlers inside the write-and-flush section of log_event.
InLogSection == { h \in DOMAIN th : th[h].pc = "log_cs" }

\* The row log_event writes for the event the handler is logging: its ten
\* fields.
RowBeingLogged(h) ==
    LET event == th[h].trace[th[h].log_pos] IN
    [timestamp |-> event.event_time, domain |-> th[h].qname,
     mode |-> IF th[h].recursion_requested THEN "recursive" ELSE "iterative",
     server_contacted |-> event.server, step |-> event.step,
     response_or_referral |-> event.response, rtt_s |-> event.rtt,
     total_time_s |-> event.total_time,
     cache_status |-> IF th[h].cache_hit THEN "HIT" ELSE event.cache_status,
     request_id |-> h]

\* C19: under every interleaving of two request handlers, at most one handler
\* is inside the write-and-flush section of log_event, and it is the holder
\* of the logger's lock; every change of the log is made by that handler and
\* appends exactly one row, all ten fields of its own event, after the rows
\* already flushed, which stay as they are: no row holds fields of two events.
C19_RowsWrittenOneAtATime ==
    /\ [](/\ Cardinality(InLogSection) <= 1
          /\ \A h \in DOMAIN th : (log_lock = Some(h)) <=> (h \in InLogSection))
    /\ [][log' # log =>
             \E h \in InLogSection :
                /\ log_lock = Some(h)
                /\ log' = Append(log, RowBeingLogged(h))
                /\ th'[h].pc # "log_cs"]_vars

\* C19_Witness: both handlers logged their request: one wrote its row while
\* the other had to wait for the lock, and the log holds the two whole rows.
C19_Witness ==
    /\ Len(log) = 2
    /\ log[1].request_id = 2 /\ log[2].request_id = 1
    /\ log[1].domain # log[2].domain
    /\ log[1].mode # log[2].mode
    /\ th[1].pc = "send" /\ th[2].pc = "send"
    /\ log[2].server_contacted = th[1].trace[1].server
    /\ log[2].response_or_referral = th[1].trace[1].response

\* C20 as claimed: if writing a trace row fails (an I/O error, or the log
\* file already closed) the handler still sends the response of its request:
\* no step taken inside log_event ends the handler's thread.
C20_AsClaimed ==
    [][\A h \in DOMAIN th : th[h].pc = "log_cs" => th'[h].pc # "crashed"]_vars
(***************************************************************************)
(* C21: graceful shutdown.  As stated: once shutdown is under way (the     *)
(* serve loop has stopped and its socket is closed), no handler is still   *)
(* past decode with its trace unlogged or its response unsent: each one    *)
(* had logged and sent before the socket and the log file were closed and  *)
(* the process exited.  The code does not wait for the handlers.           *)
(***************************************************************************)
PastDecode(h) == th[h].pc \notin {"idle", "start", "done"}

C21_AsClaimed ==
    main # "serving" => \A h \in DOMAIN th : ~PastDecode(h)

(***************************************************************************)
(* C22: the serve loop never waits for a request's resolution.  While one  *)
(* handler is blocked on a server (an upstream query, the resolution of NS *)
(* names, a recursive lookup), the loop can take the next datagram, and    *)
(* the handler of any other request can take its next step, whatever that  *)
(* step is.                                                                *)
(***************************************************************************)
Blocked(h) == th[h].pc \in {"recursive", "query", "resolve_ns"}

C22_ServeNeverWaitsForResolution ==
    \A h1, h2 \in DOMAIN th :
        Blocked(h1) /\ h2 # h1 =>
            /\ th[h2].pc = "idle" => ENABLED ConcRecv(h2)
            /\ th[h2].pc \notin {"done", "crashed"} => ENABLED ConcStep(h2)

\* The second request is answered while the first is still waiting for a server.
C22_Witness ==
    /\ Blocked(1)
    /\ th[2].pc = "done"
    /\ Len(sent) = 1
    /\ Len(log) >= 1
    /\ \A i \in DOMAIN log : log[i].request_id = 2

(***************************************************************************)
(* C23: the flags of the response.  As stated: the recursion-desired (RD)  *)
(* flag of the response sent to the client is set exactly when recursion   *)
(* was requested by the client or forced by recursive_default.             *)
(***************************************************************************)
Sends(h) == th[h].pc = "send" /\ Len(sent') = Len(sent) + 1

C23_AsClaimed ==
    [][\A h \in DOMAIN th :
         Sends(h) =>
            sent'[Len(sent')].rd = (th[h].data.rd \/ recursive_default)]_vars

\* C23, as the code has it: the recursion-available (RA) flag of the response
\* is set exactly when recursion was requested by the client or forced by
\* recursive_default; the RD flag is the request's RD flag, copied.
C23_RaMirrorsRecursionRdCopied ==
    [][\A h \in DOMAIN th :
         Sends(h) =>
            /\ sent'[Len(sent')].ra = (th[h].data.rd \/ recursive_default)
            /\ sent'[Len(sent')].rd = th[h].data.rd]_vars

\* Recursion forced by the configuration for a request with RD clear.
C23_Witness ==
    /\ recursive_default
    /\ Len(sent) = 1
    /\ sent[1].ra
    /\ ~sent[1].rd
    /\ th[1].pc = "done"

(***************************************************************************)
(* _safe_system_nameservers called directly, for every short list of       *)
(* nameserver entries /etc/resolv.conf may hold.                           *)
(***************************************************************************)
MaxNameservers == 2

Entries == DOMAIN Chars
CandidateLists == UNION { [1..n -> Entries] : n \in 0..MaxNameservers }

NsCall(candidates) ==
    /\ call.op = "none"
    /\ call' = [op |-> "_safe_system_nameservers", candidates |-> candidates,
                result |-> _safe_system_nameservers(candidates)]
    /\ UNCHANGED <<config, main, cache, cache_lock, now, th, log, log_lock, sent>>

NsInit ==
    /\ cache = <<>>
    /\ cache_enabled = TRUE
    /\ recursive_default = FALSE
    /\ root_servers = ROOT_SERVERS
    /\ cache_lock = None
    /\ now = 0
    /\ th = <<>>
    /\ log = <<>>
    /\ log_lock = None
    /\ sent = <<>>
    /\ call = NoCall
    /\ main = "serving"

NsNext == \E candidates \in CandidateLists : NsCall(candidates)

NsSpec == NsInit /\ [][NsNext]_vars

(***************************************************************************)
(* C24: _safe_system_nameservers returns the configured nameservers with   *)
(* every loopback, unspecified and non-IP-literal entry removed, in their  *)
(* original order, and the pair (8.8.8.8, 1.1.1.1) when nothing remains;   *)
(* the result is never empty and holds no loopback or unspecified address. *)
(* Which entries are loopback, unspecified or no IP literal is written     *)
(* down here entry by entry, independently of the parser above.            *)
(***************************************************************************)
LoopbackEntries == {"127.0.0.53", "127.1.2.3", "::1", "0:0:0:0:0:0:0:1"}
UnspecifiedEntries == {"0.0.0.0", "::", "0::0"}
NonLiteralEntries == {"localhost", "256.1.1.1", "1.2.3", "01.2.3.4", "1::2::3"}
Removed == LoopbackEntries \cup UnspecifiedEntries \cup NonLiteralEntries

C24_SafeNameservers ==
    call.op = "_safe_system_nameservers" =>
        LET kept == SelectSeq(call.candidates, LAMBDA ns : ns \notin Removed)
        IN  /\ call.result = IF kept = <<>> THEN <<"8.8.8.8", "1.1.1.1">> ELSE kept
            /\ call.result # <<>>
            /\ \A i \in DOMAIN call.result :
                   call.result[i] \notin LoopbackEntries \cup UnspecifiedEntries

\* A loopback entry is dropped and the usable one behind it is kept.
C24_Witness ==
    /\ call.op = "_safe_system_nameservers"
    /\ call.candidates = <<"127.0.0.53", "2001:db8::1">>
    /\ call.result = <<"2001:db8::1">>

(***************************************************************************)
(* The cache with its objects told apart.  The heap is the sequence of the *)
(* objects allocated so far and a reference is an index into it; a record  *)
(* set object carries rdtype, ttl and items, a list object carries the     *)
(* references of its elements.  The caller stores a list of record sets,   *)
(* looks the entry up, and changes whatever it holds a reference to.  The  *)
(* record sets carry a positive TTL and the clock stands still, so the     *)
(* entry is written and stays fresh.                                       *)
(***************************************************************************)
MaxMutations == 2
MaxLookups == 2

RRsetObject(rrset) ==
    [kind |-> "rrset", rdtype |-> rrset.rdtype, ttl |-> rrset.ttl,
     items |-> rrset.items, elems |-> <<>>]
ListObject(elems) ==
    [kind |-> "list", rdtype |-> 0, ttl |-> 0, items |-> <<>>, elems |-> elems]

\* The record sets a list object holds, as values.
View(heap, ref) ==
    [i \in DOMAIN heap[ref].elems |->
        LET o == heap[heap[ref].elems[i]]
        IN  [rdtype |-> o.rdtype, ttl |-> o.ttl, items |-> o.items]]

\* hasattr(rrset, "copy"): a dns.rrset.RRset has the method.
HasCopy(obj) == obj.kind = "rrset"

\* rrset.copy(): a new record set object with the same name, type, TTL and
\* its own collection of the same (immutable) items.
rrset_copy_same_object(heap, ref) == [heap |-> heap, ref |-> ref]
rrset_copy(heap, ref) == [heap |-> Append(heap, heap[ref]), ref |-> Len(heap) + 1]

\* _cache_lookup, lines 174-182, and _cache_store, lines 203-212: a new list
\* of the copies of the record sets, or of the record sets themselves where
\* they cannot be copied.
RECURSIVE CopiesOf(_, _)
CopiesOf(heap, refs) ==
    IF refs = <<>> THEN [heap |-> heap, refs |-> <<>>]
    ELSE LET c == IF HasCopy(heap[Head(refs)]) THEN rrset_copy(heap, Head(refs))
                  ELSE [heap |-> heap, ref |-> Head(refs)]
             rest == CopiesOf(c.heap, Tail(refs))
         IN  [heap |-> rest.heap, refs |-> <<c.ref>> \o rest.refs]
NewListOfCopies(heap, ref) ==
    LET c == CopiesOf(heap, heap[ref].elems)
    IN  [heap |-> Append(c.heap, ListObject(c.refs)), ref |-> Len(c.heap) + 1]

\* The caller builds a list of record sets and passes it to _cache_store.
CopyStore(rrsets) ==
    /\ call.op = "none"
    /\ LET records == [i \in DOMAIN rrsets |-> RRsetObject(rrsets[i])]
           heap0 == Append(records, ListObject([i \in DOMAIN rrsets |-> i]))
           passed == Len(heap0)
           stored == NewListOfCopies(heap0, passed)
       IN  call' = [op |-> "store", heap |-> stored.heap, passed |-> passed,
                    entry |-> stored.ref, returned |-> <<>>, original |-> rrsets,
                    mutations |-> 0]
    /\ UNCHANGED <<config, main, cache, cache_lock, now, th, log, log_lock, sent>>

\* _cache_lookup of the stored key.
CopyLookup ==
    /\ call.op \in {"store", "lookup", "mutate"}
    /\ Len(call.returned) < MaxLookups
    /\ LET copies == NewListOfCopies(call.heap, call.entry)
       IN  call' = [call EXCEPT !.op = "lookup", !.heap = copies.heap,
                                !.returned = Append(@, copies.ref)]
    /\ UNCHANGED <<config, main, cache, cache_lock, now, th, log, log_lock, sent>>

\* What the caller may do to a list it holds and to the record sets in it.
Mutated(heap, list, how, i) ==
    LET elems == heap[list].elems IN
    CASE how = "clear" -> [heap EXCEPT ![list].elems = <<>>]
      [] how = "pop" -> [heap EXCEPT ![list].elems = SubSeq(elems, 1, Len(elems) - 1)]
      [] how = "ttl" -> [heap EXCEPT ![elems[i]].ttl = 0]
      [] how = "add" -> [heap EXCEPT ![elems[i]].items = Append(@, "203.0.113.9")]

\* The caller changes the list it passed or a list a lookup returned.
CopyMutate(list, how, i) ==
    /\ call.op \in {"store", "lookup", "mutate"}
    /\ call.mutations < MaxMutations
    /\ list \in {call.passed} \cup { call.returned[k] : k \in DOMAIN call.returned }
    /\ i \in DOMAIN call.heap[list].elems
    /\ call' = [call EXCEPT !.op = "mutate", !.heap = Mutated(@, list, how, i),
                            !.mutations = @ + 1]
    /\ UNCHANGED <<config, main, cache, cache_lock, now, th, log, log_lock, sent>>

CopyInit ==
    /\ cache = <<>>
    /\ cache_enabled = TRUE
    /\ recursive_default = FALSE
    /\ root_servers = ROOT_SERVERS
    /\ cache_lock = None
    /\ now = 0
    /\ th = <<>>
    /\ log = <<>>
    /\ log_lock = None
    /\ sent = <<>>
    /\ call = NoCall
    /\ main = "serving"

CopyStoreAny == \E rrsets \in {AnswerA, AnswerCnameA} : CopyStore(rrsets)
CopyMutateAny ==
    /\ call.op # "none"
    /\ \E list \in 1..Len(call.heap), how \in {"clear", "pop", "ttl", "add"},
          i \in 1..2 : CopyMutate(list, how, i)

CopyNext ==
    \/ CopyStoreAny
    \/ CopyLookup
    \/ CopyMutateAny

CopySpec == CopyInit /\ [][CopyNext]_vars

(***************************************************************************)
(* C25: the records a lookup returns and the records a store keeps are     *)
(* independent copies.  Whatever the caller does to the list it passed to  *)
(* the store, to a list a lookup returned, or to a record set in either,   *)
(* the cached entry holds the records as they were stored, and a lookup    *)
(* returns those.                                                          *)
(***************************************************************************)
C25_CachedRecordsIndependent ==
    call.op \in {"store", "lookup", "mutate"} =>
        /\ View(call.heap, call.entry) = call.original
        /\ call.op = "lookup" =>
               View(call.heap, call.returned[Len(call.returned)]) = call.original

\* The caller changed the records it passed and the records the first lookup
\* returned, and the second lookup has just returned.
C25_Witness ==
    /\ call.op = "lookup"
    /\ Len(call.returned) = 2
    /\ View(call.heap, call.passed) # call.original
    /\ View(call.heap, call.returned[1]) # call.original
    /\ Len(View(call.heap, call.passed)) = Len(call.original)

(***************************************************************************)
(* C26: a malformed reply is not fatal.  As stated: when the reply of a    *)
(* server queried during iterative resolution cannot be decoded, the       *)
(* engine takes the server to have given no answer and no referral and     *)
(* goes on, and the handler still completes: no step out of a query ends   *)
(* the handler thread.  dns.query.udp raises on such a reply and the       *)
(* exception is neither Timeout nor OSError.                               *)
(***************************************************************************)
C26_AsClaimed ==
    [][\A h \in DOMAIN th : th[h].pc = "query" => th'[h].pc # "crashed"]_vars

(***************************************************************************)
(* C27: the phase label never regresses and is capped.  Along the trace of *)
(* one iterative resolution the steps are non-decreasing in the order      *)
(* Root < TLD < Authoritative and none is beyond the level being queried;  *)
(* the resolution starts at Root; the label moves up by one level, and     *)
(* stops at Authoritative, exactly when a referral replaced the candidate  *)
(* set, and stays as it is at every other step.                            *)
(***************************************************************************)
Rank(step) == IF step = "Root" THEN 0 ELSE IF step = "TLD" THEN 1 ELSE 2
Levels == {"Root", "TLD", "Authoritative"}

\* A referral has just replaced the servers: the pass over the new list
\* begins at its first server.
ReferralTaken(h) ==
    /\ InIterativeLookup(h)
    /\ th'[h].pc = "query"
    /\ th'[h].idx = 1

LabelsInOrder(h) ==
    LET trace == th[h].trace IN
    /\ th[h].step_name \in Levels
    /\ \A i \in DOMAIN trace :
          /\ trace[i].step \in Levels
          /\ Rank(trace[i].step) <= Rank(th[h].step_name)
    /\ \A i \in 1..(Len(trace) - 1) : Rank(trace[i].step) <= Rank(trace[i + 1].step)

LabelMoves(h) ==
    /\ (~InIterativeLookup(h) /\ th'[h].pc = "query") =>
           th'[h].step_name = "Root" /\ th'[h].trace = <<>>
    /\ ReferralTaken(h) =>
           /\ Rank(th'[h].step_name) =
                 (IF Rank(th[h].step_name) < 2 THEN Rank(th[h].step_name) + 1 ELSE 2)
           /\ th'[h].servers # <<>>
           /\ th'[h].trace # <<>>
    /\ (InIterativeLookup(h) /\ th'[h].pc \in {"query", "resolve_ns"}
          /\ ~ReferralTaken(h)) =>
           /\ th'[h].step_name = th[h].step_name
           /\ th'[h].servers = th[h].servers

C27_PhaseLabelMonotoneCapped ==
    /\ [](\A h \in DOMAIN th : InIterativeLookup(h) => LabelsInOrder(h))
    /\ [][\A h \in DOMAIN th : LabelMoves(h)]_vars

\* A referral received at the Authoritative level is followed by one more
\* level, labelled Authoritative again.
C27_Witness ==
    /\ th[1].pc = "query"
    /\ th[1].step_name = "Authoritative"
    /\ Len(th[1].trace) = 2
    /\ th[1].trace[1].step = "Authoritative"
    /\ th[1].trace[1].response.text = "REFERRAL"
    /\ th[1].trace[2].step = "Authoritative"

(***************************************************************************)
(* C28: within one pass over a candidate set the servers are queried       *)
(* strictly in list order, each list position at most once.  The queries   *)
(* of the pass so far went to the servers before the current position, in  *)
(* order; each query goes to the server at the current position; the next  *)
(* position is reached only after a timeout or a reply that gave neither   *)
(* answer, NXDOMAIN nor usable referral; and a reply that gives one of     *)
(* these ends the pass.                                                    *)
(***************************************************************************)
\* The servers queried so far, and the positions of the current list
\* already queried.
QueriedServers(h) == [i \in DOMAIN Queried(h) |-> Queried(h)[i].server]
PassDone(h) == IF th[h].pc = "query" THEN th[h].idx - 1 ELSE th[h].idx

QueriedInListOrder(h) ==
    LET q == QueriedServers(h)
        n == PassDone(h)
    IN  /\ th[h].idx \in 1..Len(th[h].servers)
        /\ Len(q) >= n
        /\ SubSeq(q, Len(q) - n + 1, Len(q)) = SubSeq(th[h].servers, 1, n)

\* The step stays in the pass: the list is kept and the next position is due.
SamePass(h) ==
    /\ InIterativeLookup(h)
    /\ th'[h].pc = "query"
    /\ th'[h].hops = th[h].hops

\* The reply the step received, if it received one.
Replied(h) == th[h].pc = "query" /\ th'[h].trace # th[h].trace /\ th'[h].pc # "crashed"
Reply_(h) == th'[h].response[1]
Usable(r) ==
    \/ IsAnswer(r)
    \/ r.rcode = NXDOMAIN
    \/ _extract_glue_ips(r) # <<>>

PassSteps(h) ==
    /\ (th[h].pc = "query" /\ th'[h].pc # "crashed") =>
           \/ th'[h].pc \notin {"query", "resolve_ns"}
           \/ QueriedServers(h)' = Append(QueriedServers(h), th[h].servers[th[h].idx])
    /\ SamePass(h) =>
           /\ th'[h].servers = th[h].servers
           /\ th'[h].idx = th[h].idx + 1
           /\ th[h].pc = "query" =>
                  \/ th'[h].trace = th[h].trace
                  \/ ~Usable(Reply_(h)) /\ _extract_ns_names(Reply_(h)) = <<>>
           /\ th[h].pc = "resolve_ns" => th'[h].resolved_ips = Some(<<>>)
    /\ (Replied(h) /\ Usable(Reply_(h))) =>
           IF IsAnswer(Reply_(h)) \/ Reply_(h).rcode = NXDOMAIN
           THEN th'[h].pc \in {"resolved", "store"}
           ELSE /\ th'[h].pc = "query"
                /\ th'[h].idx = 1
                /\ th'[h].servers = _extract_glue_ips(Reply_(h))
                /\ th'[h].hops = th[h].hops + 1

C28_ServersQueriedInListOrder ==
    /\ [](\A h \in DOMAIN th : InIterativeLookup(h) => QueriedInListOrder(h))
    /\ [][\A h \in DOMAIN th : PassSteps(h)]_vars

\* The first root server timed out, the second replied without answer or
\* referral, and the third is due.
C28_Witness ==
    /\ th[1].pc = "query"
    /\ th[1].idx = 3
    /\ QueriedServers(1) = <<ROOT_SERVERS[1], ROOT_SERVERS[2]>>
    /\ Len(th[1].trace) = 1
    /\ th[1].trace[1].server = ROOT_SERVERS[2]

(***************************************************************************)
(* C29: no handler holds the cache lock or the logger lock while a network *)
(* operation of its own (upstream query, NS-address resolution, recursive  *)
(* lookup, response send) is in progress; no handler holds both locks at   *)
(* once; and the handlers never deadlock on the two locks: whenever a      *)
(* handler waits for a lock, the holder of that lock can take its step,    *)
(* and when the lock is free the waiting handler can.                      *)
(***************************************************************************)
InNetworkOperation(h) == th[h].pc \in {"recursive", "query", "resolve_ns", "send"}
HoldsCacheLock(h) == cache_lock = Some(h)
HoldsLogLock(h) == log_lock = Some(h)
WaitsForCacheLock(h) == th[h].pc \in {"lookup", "store"}
WaitsForLogLock(h) == th[h].pc = "log"

C29_NoLockAcrossNetworkNoDeadlock ==
    \A h \in DOMAIN th :
        /\ InNetworkOperation(h) => ~HoldsCacheLock(h) /\ ~HoldsLogLock(h)
        /\ ~(HoldsCacheLock(h) /\ HoldsLogLock(h))
        /\ HoldsCacheLock(h) => th[h].pc \in {"lookup_cs", "store_cs"}
        /\ HoldsLogLock(h) => th[h].pc = "log_cs"
        /\ WaitsForCacheLock(h) =>
               ENABLED ConcStep(IF cache_lock = None THEN h ELSE cache_lock[1])
        /\ WaitsForLogLock(h) =>
               ENABLED ConcStep(IF log_lock = None THEN h ELSE log_lock[1])

\* One handler waits for a server while the other writes the cache under the
\* lock, having logged nothing yet.
C29_Witness ==
    /\ th[1].pc = "query"
    /\ th[2].pc = "store_cs"
    /\ HoldsCacheLock(2)
    /\ log_lock = None

(***************************************************************************)
(* C30: a stored answer serves later requests.  A resolution (recursive or *)
(* iterative) that returns NOERROR with a non-empty answer whose minimum   *)
(* TTL is positive, with the cache enabled, writes the answer under the    *)
(* key of the request with expiry the time of the store plus that TTL; the *)
(* entry then stays as written until a later store of the same key         *)
(* overwrites it or a lookup finds it expired; and a request for the same  *)
(* (name, type) looked up before the expiry is a HIT that returns the      *)
(* entry's records and contacts no server.                                 *)
(***************************************************************************)
KeyOf(h) == <<Lower(th[h].qname), th[h].qtype>>

ResolutionStored(h) ==
    /\ (th[h].pc \in {"recursive", "query"}
          /\ th'[h].pc \in {"store", "resolved"}
          /\ th'[h].rcode = NOERROR
          /\ th'[h].answers # <<>>
          /\ TtlValues(th'[h].answers) # <<>>
          /\ MinOf(TtlValues(th'[h].answers)) > 0
          /\ cache_enabled) =>
           /\ th'[h].pc = "store"
           /\ th'[h].expiry = now' + MinOf(TtlValues(th'[h].answers))
    /\ (th[h].pc = "store_cs" /\ th'[h].pc = "resolved") =>
           /\ KeyOf(h) \in DOMAIN cache'
           /\ cache'[KeyOf(h)] = [rrsets |-> th[h].answers, expiry |-> th[h].expiry]

EntryKept(key) ==
    (key \notin DOMAIN cache' \/ cache'[key] # cache[key]) =>
        \E h \in DOMAIN th :
            /\ KeyOf(h) = key
            /\ \/ th[h].pc = "store_cs"
               \/ th[h].pc = "lookup_cs" /\ now >= cache[key].expiry

ServedFromCache(h) ==
    (th[h].pc = "lookup_cs" /\ th'[h].pc # "lookup_cs"
       /\ KeyOf(h) \in DOMAIN cache /\ now < cache[KeyOf(h)].expiry) =>
        /\ th'[h].pc = "resolved"
        /\ th'[h].cache_hit
        /\ th'[h].answers = cache[KeyOf(h)].rrsets
        /\ th'[h].rcode = NOERROR
        /\ th'[h].contacted = <<>>
        /\ Len(th'[h].trace) = 1
        /\ th'[h].trace[1].cache_status = "HIT"

C30_StoredAnswerServesLaterRequests ==
    /\ [][/\ \A h \in DOMAIN th : ResolutionStored(h) /\ ServedFromCache(h)
          /\ \A key \in DOMAIN cache : EntryKept(key)]_vars
    /\ [](\A h \in DOMAIN th : th[h].cache_hit => th[h].contacted = <<>>)

\* The first request was resolved through the root server and stored; the
\* second, for the same name in another case, is a hit with the same records.
C30_Witness ==
    /\ th[1].pc = "done"
    /\ th[2].pc = "resolved"
    /\ th[2].cache_hit
    /\ th[2].answers = AnswerA
    /\ th[2].contacted = <<>>
    /\ KeyOf(2) \in DOMAIN cache
    /\ cache[KeyOf(2)].rrsets = AnswerA
    /\ \E i \in DOMAIN log : log[i].request_id = 1 /\ log[i].cache_status = "MISS"

(***************************************************************************)
(* C31: total_time counts from the entry of resolve.  As stated: also when *)
(* the iterative path runs as fallback after a failed recursive attempt,   *)
(* the clock reading its events count total_time from is the reading at    *)
(* which resolve was entered.  With one handler no time passes between the *)
(* entry of resolve and the start of the recursive attempt, so that        *)
(* reading is the clock at the start of the recursive attempt.  The code   *)
(* reads the clock anew at the start of _iterative_lookup.                 *)
(***************************************************************************)
C31_AsClaimed ==
    [][\A h \in DOMAIN th :
         (th[h].pc = "recursive" /\ th'[h].pc = "query") => th'[h].start = now]_vars

(***************************************************************************)
(* C32: an NXDOMAIN response from a server of the iterative path ends the  *)
(* resolution at once.  The step that receives it returns an empty answer  *)
(* list with rcode NXDOMAIN and leaves the cache as it was, whatever       *)
(* servers remain in the list; and from then on the handler contacts no    *)
(* server and writes nothing to the cache.                                 *)
(***************************************************************************)
GotNxdomain(h) == Replied(h) /\ Reply_(h).rcode = NXDOMAIN /\ ~IsAnswer(Reply_(h))

EndedByNxdomain(h) ==
    /\ th[h].pc \in AfterResolve
    /\ th[h].rcode = NXDOMAIN
    /\ th[h].trace # <<>>
    /\ th[h].trace[Len(th[h].trace)].response.text = "NXDOMAIN"

C32_NxdomainEndsResolution ==
    /\ [][\A h \in DOMAIN th :
            /\ GotNxdomain(h) =>
                  /\ th'[h].pc = "resolved"
                  /\ th'[h].answers = <<>>
                  /\ th'[h].rcode = NXDOMAIN
                  /\ th'[h].contacted = Append(th[h].contacted,
                                               [kind |-> "udp",
                                                server |-> th[h].servers[th[h].idx]])
                  /\ cache' = cache
            /\ EndedByNxdomain(h) =>
                  /\ th'[h].pc \in AfterResolve \cup {"done", "crashed"}
                  /\ th'[h].pc \in AfterResolve => th'[h].contacted = th[h].contacted
                  /\ cache' = cache]_vars
    /\ [](\A h \in DOMAIN th :
            EndedByNxdomain(h) =>
                /\ th[h].answers = <<>>
                /\ th[h].contacted[Len(th[h].contacted)].server
                      = th[h].trace[Len(th[h].trace)].server)

\* The first root server said NXDOMAIN; two root servers were never asked.
C32_Witness ==
    /\ th[1].pc = "send"
    /\ EndedByNxdomain(1)
    /\ Len(th[1].contacted) = 1
    /\ th[1].idx = 1
    /\ Len(th[1].servers) = 3
    /\ cache_enabled
    /\ cache = <<>>

(***************************************************************************)
(* C33: a request for which recursion is neither requested (RD clear) nor  *)
(* forced by recursive_default never triggers the recursive delegation of  *)
(* its query.  It is never in _recursive_lookup, has contacted no          *)
(* recursive resolver for its query and holds no event with step           *)
(* Recursive; after a cache miss it enters the iterative path at the first *)
(* root server; and each of its rows is logged with mode iterative.        *)
(***************************************************************************)
Decoded(h) == th[h].pc \notin {"idle", "start", "done", "crashed"}
NoRecursion(h) == Decoded(h) /\ ~th[h].data.rd /\ ~recursive_default

C33_NoRecursionWithoutRequest ==
    /\ [](\A h \in DOMAIN th :
            NoRecursion(h) =>
               /\ th[h].pc # "recursive"
               /\ ~th[h].recursion_requested
               /\ ~AttemptedRecursive(h)
               /\ \A i \in DOMAIN th[h].trace : th[h].trace[i].step # "Recursive")
    /\ [][\A h \in DOMAIN th :
            NoRecursion(h) =>
               /\ (th[h].pc = "lookup_cs" /\ th'[h].pc # "lookup_cs"
                     /\ ~th'[h].cache_hit) =>
                      /\ th'[h].pc = "query"
                      /\ th'[h].servers = root_servers
                      /\ th'[h].idx = 1
                      /\ th'[h].step_name = "Root"
                      /\ th'[h].contacted = <<>>
               /\ (th[h].pc = "log_cs" /\ th'[h].pc # "crashed") =>
                      /\ Len(log') = Len(log) + 1
                      /\ log'[Len(log')].request_id = h
                      /\ log'[Len(log')].mode = "iterative"]_vars

\* The request was resolved through the root servers and logged.
C33_Witness ==
    /\ th[1].pc = "send"
    /\ NoRecursion(1)
    /\ ~th[1].cache_hit
    /\ Len(th[1].contacted) >= 2
    /\ Len(log) >= 1
    /\ \A i \in DOMAIN log : log[i].mode = "iterative" /\ log[i].step # "Recursive"

(***************************************************************************)
(* C34: the expiry of a stored cache entry is the time of the store plus   *)
(* the minimum TTL over all record sets supplied to that store.  After a   *)
(* store that writes (cache enabled, every TTL positive) the entry holds   *)
(* all the supplied record sets with that expiry; and a lookup of the key  *)
(* made next returns all of them while the clock is before that expiry and *)
(* none of them from then on: they become absent together when the         *)
(* shortest-lived one expires.                                             *)
(***************************************************************************)
Ttls_(rrsets) == { rrsets[i].ttl : i \in { j \in DOMAIN rrsets : "ttl" \in DOMAIN rrsets[j] } }
ShortestTtl(rrsets) == CHOOSE m \in Ttls_(rrsets) : \A n \in Ttls_(rrsets) : m <= n
Writes(store) ==
    /\ cache_enabled
    /\ Ttls_(store.rrsets) # {}
    /\ \A n \in Ttls_(store.rrsets) : n > 0

C34_ExpiryIsStoreTimePlusMinTtl ==
    /\ (call.op = "store" /\ Writes(call)) =>
           /\ <<Lower(call.qname), call.qtype>> \in DOMAIN cache
           /\ cache[<<Lower(call.qname), call.qtype>>]
                 = [rrsets |-> call.rrsets,
                    expiry |-> call.at + ShortestTtl(call.rrsets)]
    /\ (call.op = "lookup" /\ call.prev.op = "store" /\ Writes(call.prev)
          /\ Lower(call.prev.qname) = Lower(call.qname)
          /\ call.prev.qtype = call.qtype) =>
           call.ret = IF call.at < call.prev.at + ShortestTtl(call.prev.rrsets)
                      THEN Some(call.prev.rrsets) ELSE None

\* Record sets with TTL 2 and 1 stored together are both absent one time unit
\* after the store.
C34_Witness ==
    /\ call.op = "lookup"
    /\ call.prev.op = "store"
    /\ Writes(call.prev)
    /\ Lower(call.prev.qname) = Lower(call.qname)
    /\ call.prev.qtype = call.qtype
    /\ Len(call.prev.rrsets) = 2
    /\ call.prev.rrsets[1].ttl = 2
    /\ call.prev.rrsets[2].ttl = 1
    /\ call.at = call.prev.at + 1
    /\ call.ret = None

(***************************************************************************)
(* C35: cache keys are case-insensitive in the name and tell record types  *)
(* apart.  Every key of the cache holds a lower-case name; a lookup made   *)
(* right after a store that wrote, under the same type and a name that     *)
(* differs from the stored one at most in case, returns what was stored    *)
(* while it is fresh; and a store or lookup for one type leaves every      *)
(* entry of another type as it was, a lookup returning records only when   *)
(* an entry of its own type exists.                                        *)
(***************************************************************************)
SameNameAnyCase(n1, n2) == Lower(n1) = Lower(n2)

OtherTypesUntouched ==
    call' # call =>
        /\ \A key \in DOMAIN cache :
              key[2] # call'.qtype => key \in DOMAIN cache' /\ cache'[key] = cache[key]
        /\ \A key \in DOMAIN cache' :
              key[2] # call'.qtype => key \in DOMAIN cache
        /\ (call'.op = "lookup" /\ call'.ret # None) =>
              \E key \in DOMAIN cache :
                  key[2] = call'.qtype /\ SameNameAnyCase(key[1], call'.qname)

C35_KeysIgnoreCaseAndSeparateTypes ==
    /\ [](\A key \in DOMAIN cache : key[1] = Lower(key[1]))
    /\ []((call.op = "lookup" /\ call.prev.op = "store" /\ Writes(call.prev)
             /\ SameNameAnyCase(call.prev.qname, call.qname)
             /\ call.prev.qtype = call.qtype
             /\ call.at < call.prev.at + ShortestTtl(call.prev.rrsets))
            => call.ret = Some(call.prev.rrsets))
    /\ [][OtherTypesUntouched]_vars

\* Stored under the upper-case name and found under the lower-case one, while
\* the entry of the same name with type NS holds other records.
C35_Witness ==
    /\ call.op = "lookup"
    /\ call.prev.op = "store"
    /\ call.prev.qname = NameUpperA
    /\ call.qname = NameLowerA
    /\ call.qtype = RdtypeA
    /\ call.prev.qtype = RdtypeA
    /\ call.ret = Some(call.prev.rrsets)
    /\ <<NameLowerA, RdtypeNS>> \in DOMAIN cache
    /\ cache[<<NameLowerA, RdtypeNS>>].rrsets # call.prev.rrsets

(***************************************************************************)
(* Two handler threads whose resolutions take several steps: a referral    *)
(* with glue is followed to the next server, so a request logs several     *)
(* rows while the other request logs its own.                              *)
(***************************************************************************)
RowsDatagrams ==
    { Query(NameUpperA, RdtypeA, FALSE), Query(NameLowerA, RdtypeA, TRUE) }

\* Every referral carries glue, so no NS name is resolved upstream.
RowsQueryOutcomes == { Response(ReplyAnswer(AnswerA)), Response(ReplyGlue) }

RowsRecv(h) == \E data \in RowsDatagrams : Recv(h, data, 0)
\* The replies arrive within one tick of the clock.
RowsRecursiveLookup(h) == RecursiveLookup(h, TimedOut, 0)
RowsQueryServer(h) == \E outcome \in RowsQueryOutcomes : QueryServer(h, outcome, 0)

RowsStep(h) ==
    \/ RowsRecv(h)
    \/ Decode(h)
    \/ LookupAcquire(h)
    \/ LookupBody(h)
    \/ RowsRecursiveLookup(h)
    \/ RowsQueryServer(h)
    \/ StoreAcquire(h)
    \/ StoreWrite(h)
    \/ Respond(h)
    \/ LogAcquire(h)
    \/ LogWrite(h)
    \/ LogWriteRaises(h)
    \/ ConcSend(h)

RowsNext == \E h \in ConcHandlers : RowsStep(h)

RowsSpec == ConcInit /\ [][RowsNext]_vars

\* The rows of the log that carry the identifier id.
RowsWithId(id) == { i \in DOMAIN log : log[i].request_id = id }

\* The handler has drawn its request identifier: it is logging or sending.
HasRequestId(h) == th[h].pc \in {"log", "log_cs", "send"}

\* The handler writes a row in this step.
WritesRow(h) ==
    /\ th[h].pc = "log_cs"
    /\ th'[h].pc \in {"log", "send"}
    /\ Len(log') = Len(log) + 1

\* C36: every row a handler writes carries the identifier the handler drew
\* once, before its first row, and the handler keeps that identifier until
\* it sends; the rows carrying a handler's identifier are exactly the rows
\* that handler has written so far, so no row of another request shares it,
\* and two handlers never hold the same identifier, also when both handle
\* the same domain at the same time.
C36_RowsOfOneRequestShareOneId ==
    /\ [](\A h \in DOMAIN th :
            HasRequestId(h) =>
              /\ Cardinality(RowsWithId(th[h].request_id)) = th[h].log_pos - 1
              /\ \A g \in DOMAIN th \ {h} :
                    HasRequestId(g) => th[g].request_id # th[h].request_id)
    /\ [][\A h \in DOMAIN th :
            /\ WritesRow(h) =>
                  log'[Len(log')].request_id = th[h].request_id
            /\ (HasRequestId(h) /\ HasRequestId(h)') =>
                  th'[h].request_id = th[h].request_id]_vars

\* Two handlers of the same domain have written interleaved rows: a row of
\* one request lies between two rows of the other.
C36_Witness ==
    \E i, j, k \in DOMAIN log :
        /\ i < j /\ j < k
        /\ log[i].request_id = log[k].request_id
        /\ log[j].request_id # log[i].request_id
        /\ Lower(log[i].domain) = Lower(log[j].domain)

(***************************************************************************)
(* Damaged datagrams: recvfrom hands parse_response whatever arrived, a    *)
(* response cut short at any byte, or one whose answer count says more     *)
(* records than it carries.                                                *)
(***************************************************************************)
\* The first keep bytes of the datagram.
CutShort(data, keep) == Slice(data, 0, keep)

\* The datagram with its ANCOUNT (bytes 6-7) one too high.
CountOverstated(data) ==
    Slice(data, 0, 6) \o PackH(UnpackH(Slice(data, 6, 8)) + 1)
    \o Slice(data, 8, Len(data))

\* sock.recvfrom, line 98: a damaged response arrives.
DamagedReceive(reply, data) ==
    /\ call.op = "build_query"
    /\ call' = [op |-> "recvfrom", domain |-> call.domain, tid |-> call.tid,
                packet |-> call.packet, reply |-> reply, data |-> data]
    /\ UNCHANGED <<config, main, cache, cache_lock, now, th, log, log_lock, sent>>

DamagedReceiveCut ==
    /\ call.op = "build_query"
    /\ \E reply \in Replies :
          \E keep \in 0..Len(Reply(call.packet, reply)) :
              DamagedReceive(reply, CutShort(Reply(call.packet, reply), keep))

DamagedReceiveCount ==
    /\ call.op = "build_query"
    /\ \E reply \in Replies :
          DamagedReceive(reply, CountOverstated(Reply(call.packet, reply)))

DamagedNext ==
    \/ CodecBuildQueryAny
    \/ DamagedReceiveCut
    \/ DamagedReceiveCount
    \/ CodecParse
    \/ CodecParseAgain

DamagedSpec == CodecInit /\ [][DamagedNext]_vars

\* parse_response has returned.
Parsed == call.op \in {"parse_response", "parse_response_again"}

\* C37 as claimed: parse_response returns for every byte string, truncated,
\* malformed or empty, and whenever decoding failed (the except clause was
\* entered) both lists it returns are empty.
C37_AsClaimed ==
    (Parsed /\ call.ret.raised) => (call.ret.ips = <<>> /\ call.ret.nss = <<>>)

\* "ns." followed by the domain: the name of the name server that Reply puts
\* in the RDATA of its NS record, spelled out or ending in a pointer to the
\* question.
NameServerOf(domain) == <<110, 115, Dot>> \o domain

\* C38 as claimed: name decoding follows compression pointers, so for a
\* response whose NS RDATA is the label "ns" followed by a pointer to the
\* question name, as for one whose RDATA spells the name out, the name
\* server parse_response returns is the complete name, "ns." and the domain.
C38_AsClaimed ==
    (Parsed /\ call.reply.kind = "NS") => call.ret.nss = <<NameServerOf(call.domain)>>

\* C39: with cache_enabled false the cache is empty in every reachable
\* state: no handler enters the writing part of _cache_store, so every store
\* leaves the cache as it was, the lookup at the entry of resolve finds
\* nothing, no resolution is marked a cache hit and no row of the log has
\* cache_status HIT.
C39_DisabledCacheStaysEmpty ==
    ~cache_enabled =>
        /\ cache = <<>>
        /\ \A h \in DOMAIN th :
              /\ th[h].pc \notin {"store", "store_cs"}
              /\ ~th[h].cache_hit
        /\ \A i \in DOMAIN log : log[i].cache_status # "HIT"

\* With the cache disabled a resolution ended with an answer that an enabled
\* cache would have stored (NOERROR, every TTL positive); its rows are
\* logged and the cache is still empty.
C39_Witness ==
    /\ ~cache_enabled
    /\ cache = <<>>
    /\ log # <<>>
    /\ \E h \in DOMAIN th :
          /\ th[h].pc = "send"
          /\ ShouldStore(th[h].answers, th[h].rcode)
          /\ StoreExpiry(TRUE, th[h].answers, now) # None

====
